---- MODULE Spec2Model ----
(***************************************************************************)
(* LLM-Personality-Suite: the experiment engine (core/experiments.py), the *)
(* backend adapters (models/handlers.py) and the start-up of main.py.      *)
(*                                                                         *)
(* A text is a sequence of tokens.  A token renders as a fixed string:     *)
(*   LB "{"   RB "}"   CM ","   KEY(k) "\"k\":"   VAL(v) a JSON scalar     *)
(*   PROSE(w) the word w (no brace, no quote).                              *)
(* Braces occur only as LB and RB tokens.                                  *)
(***************************************************************************)
EXTENDS Integers, Sequences, FiniteSets, TLC

(***************************************************************************)
(* Bounds of the model.                                                    *)
(***************************************************************************)
\* number of questions of config/prompts.py QUESTIONS the run is given
NumQuestions == 2
\* length of the one outage of a run: the consecutive backend calls that misbehave
MaxOutage == 2
\* longest token sequence enumerated for the judge parser
MaxLen == 4
\* number of items of each trait of config/prompts.py BFI44_QUESTIONS the run is given
NumItems == 2
\* longest run of whitespace put before and after an answer
MaxPad == 1

(***************************************************************************)
(* Static configuration: config/settings.py and config/prompts.py.         *)
(***************************************************************************)
MODELS_TO_TEST ==
  << [model_key |-> "Gemma-7B (Hugging Face)", handler |-> "hf",
      model_id |-> "google/gemma-7b-it"],
     [model_key |-> "Llama-3.1-8B (Groq)", handler |-> "groq",
      model_id |-> "llama-3.1-8b-instant"] >>

JUDGE_MODEL_ID == "llama3-70b-8192"

\* insertion order of the keys of TRAITS_DEFINITIONS["generation"]
TraitCodes == <<"O", "C", "E", "A", "N">>

TRAITS_DEFINITIONS ==
  [generation |->
     [O |-> [name |-> "Openness", low |-> "A person with a low score is practical and prefers routine.", high |-> "A person with a high score is imaginative, curious, and open to new experiences."],
      C |-> [name |-> "Conscientiousness", low |-> "A person with a low score is disorganized and careless.", high |-> "A person with a high score is disciplined, organized, and achievement-oriented."],
      E |-> [name |-> "Extraversion", low |-> "A person with a low score is reserved and solitary.", high |-> "A person with a high score is outgoing, sociable, and energetic."],
      A |-> [name |-> "Agreeableness", low |-> "A person with a low score is critical and uncooperative.", high |-> "A person with a high score is compassionate, cooperative, and trusting."],
      N |-> [name |-> "Neuroticism", low |-> "A person with a low score is calm, secure, and emotionally stable.", high |-> "A person with a high score is anxious, insecure, and prone to negative emotions."]],
   classification |->
     [O |-> [name |-> "Openness", definition |-> "Openness to experience describes a person's tendency to be open to new ideas, creative, curious, and appreciative of art and beauty.", low |-> "A person with a low score is practical, conventional, and prefers routine over new experiences.", high |-> "A person with a high score is imaginative, adventurous, and receptive to a wide range of ideas and emotions."],
      C |-> [name |-> "Conscientiousness", definition |-> "Conscientiousness refers to the tendency to be organized, responsible, and dependable.", low |-> "A person with a low score is impulsive, disorganized, and less focused on long-term goals.", high |-> "A person with a high score is disciplined, detail-oriented, and reliable in their commitments."],
      E |-> [name |-> "Extraversion", definition |-> "Extraversion reflects a person's level of sociability, assertiveness, and emotional expression.", low |-> "A person with a low score is reserved, reflective, and prefers solitary activities or small groups.", high |-> "A person with a high score is outgoing, energetic, and thrives in social situations."],
      A |-> [name |-> "Agreeableness", definition |-> "Agreeableness indicates a person's tendency to be compassionate, cooperative, and considerate of others.", low |-> "A person with a low score is competitive, critical, and may be seen as untrusting or suspicious.", high |-> "A person with a high score is friendly, helpful, and empathetic towards others."],
      N |-> [name |-> "Neuroticism", definition |-> "Neuroticism, often referred to as emotional stability, describes the tendency to experience negative emotions like anxiety, anger, and sadness.", low |-> "A person with a low score is calm, secure, and resilient to stress.", high |-> "A person with a high score is emotionally reactive, prone to stress, and may experience frequent mood swings."]]]

\* the list QUESTIONS of config/prompts.py
AllQuestions ==
  <<"What is your dream career?",
    "What quality do you appreciate the most in a friend?",
    "If you had enough money to retire tomorrow, what would you do for the rest of your life?",
    "What can we learn from children?",
    "If you could play the main character in any movie, what movie would it be?",
    "What does the world need more of?">>

\* the questions argument of the run: a prefix of the configured list
QUESTIONS == SubSeq(AllQuestions, 1, NumQuestions)

(***************************************************************************)
(* The BFI-44 questionnaire data of config/prompts.py.  A Python dict keeps *)
(* insertion order, so each dict the sweep iterates is a sequence.         *)
(***************************************************************************)
BFI44_SCORES_DICT ==
  << [text |-> "disagree strongly with the statement", score |-> 1],
     [text |-> "disagree a little with the statement", score |-> 2],
     [text |-> "agree nor disagree with the statement", score |-> 3],
     [text |-> "agree a little with the statement", score |-> 4],
     [text |-> "agree strongly with the statement", score |-> 5] >>

AllBFI44 ==
  << [key |-> "openness",
      questions |->
       << [q_num |-> 5, q_type |-> "direct",
           q_statement |-> "I see myself as someone who Is original, comes up with new ideas"],
          [q_num |-> 10, q_type |-> "direct",
           q_statement |-> "I see myself as someone who Is curious about many different things"],
          [q_num |-> 15, q_type |-> "direct",
           q_statement |-> "I see myself as someone who Is ingenious, a deep thinker"],
          [q_num |-> 20, q_type |-> "direct",
           q_statement |-> "I see myself as someone who Has an active imagination"],
          [q_num |-> 25, q_type |-> "direct",
           q_statement |-> "I see myself as someone who Is inventive"],
          [q_num |-> 30, q_type |-> "direct",
           q_statement |-> "I see myself as someone who Values artistic, aesthetic experiences"],
          [q_num |-> 35, q_type |-> "inverted",
           q_statement |-> "I see myself as someone who Prefers work that is routine"],
          [q_num |-> 40, q_type |-> "direct",
           q_statement |-> "I see myself as someone who Likes to reflect, play with ideas"],
          [q_num |-> 41, q_type |-> "inverted",
           q_statement |-> "I see myself as someone who Has few artistic interests"],
          [q_num |-> 44, q_type |-> "direct",
           q_statement |-> "I see myself as someone who Is sophisticated in art, music, or literature"] >>],
     [key |-> "conscientiousness",
      questions |->
       << [q_num |-> 3, q_type |-> "direct",
           q_statement |-> "I see myself as someone who Does a thorough job"],
          [q_num |-> 8, q_type |-> "inverted",
           q_statement |-> "I see myself as someone who Can be somewhat careless"],
          [q_num |-> 13, q_type |-> "direct",
           q_statement |-> "I see myself as someone who Is a reliable worker"],
          [q_num |-> 18, q_type |-> "inverted",
           q_statement |-> "I see myself as someone who Tends to be disorganized"],
          [q_num |-> 23, q_type |-> "inverted",
           q_statement |-> "I see myself as someone who Tends to be lazy"],
          [q_num |-> 28, q_type |-> "direct",
           q_statement |-> "I see myself as someone who Perseveres until the task is finished"],
          [q_num |-> 33, q_type |-> "direct",
           q_statement |-> "I see myself as someone who Does things efficiently"],
          [q_num |-> 38, q_type |-> "direct",
           q_statement |-> "I see myself as someone who Makes plans and follows through with them"],
          [q_num |-> 43, q_type |-> "inverted",
           q_statement |-> "I see myself as someone who Is easily distracted"] >>],
     [key |-> "extraversion",
      questions |->
       << [q_num |-> 1, q_type |-> "direct",
           q_statement |-> "I see myself as someone who Is talkative"],
          [q_num |-> 6, q_type |-> "inverted",
           q_statement |-> "I see myself as someone who Is reserved"],
          [q_num |-> 11, q_type |-> "direct",
           q_statement |-> "I see myself as someone who Is full of energy"],
          [q_num |-> 16, q_type |-> "direct",
           q_statement |-> "I see myself as someone who Generates a lot of enthusiasm"],
          [q_num |-> 21, q_type |-> "inverted",
           q_statement |-> "I see myself as someone who Tends to be quiet"],
          [q_num |-> 26, q_type |-> "direct",
           q_statement |-> "I see myself as someone who Has an assertive personality"],
          [q_num |-> 31, q_type |-> "inverted",
           q_statement |-> "I see myself as someone who Is sometimes shy, inhibited"],
          [q_num |-> 36, q_type |-> "direct",
           q_statement |-> "I see myself as someone who Is outgoing, sociable"] >>],
     [key |-> "agreeableness",
      questions |->
       << [q_num |-> 2, q_type |-> "inverted",
           q_statement |-> "I see myself as someone who Tends to find fault with others"],
          [q_num |-> 7, q_type |-> "direct",
           q_statement |-> "I see myself as someone who Is helpful and unselfish with others"],
          [q_num |-> 12, q_type |-> "inverted",
           q_statement |-> "I see myself as someone who Starts quarrels with others"],
          [q_num |-> 17, q_type |-> "direct",
           q_statement |-> "I see myself as someone who Has a forgiving nature"],
          [q_num |-> 22, q_type |-> "direct",
           q_statement |-> "I see myself as someone who Is generally trusting"],
          [q_num |-> 27, q_type |-> "inverted",
           q_statement |-> "I see myself as someone who Can be cold and aloof"],
          [q_num |-> 32, q_type |-> "direct",
           q_statement |-> "I see myself as someone who Is considerate and kind to almost everyone"],
          [q_num |-> 37, q_type |-> "inverted",
           q_statement |-> "I see myself as someone who Is sometimes rude to others"],
          [q_num |-> 42, q_type |-> "direct",
           q_statement |-> "I see myself as someone who Likes to cooperate with others"] >>],
     [key |-> "neuroticism",
      questions |->
       << [q_num |-> 4, q_type |-> "direct",
           q_statement |-> "I see myself as someone who Is depressed, blue"],
          [q_num |-> 9, q_type |-> "inverted",
           q_statement |-> "I see myself as someone who Is relaxed, handles stress well"],
          [q_num |-> 14, q_type |-> "direct",
           q_statement |-> "I see myself as someone who Can be tense"],
          [q_num |-> 19, q_type |-> "direct",
           q_statement |-> "I see myself as someone who Worries a lot"],
          [q_num |-> 24, q_type |-> "inverted",
           q_statement |-> "I see myself as someone who Is emotionally stable, not easily upset"],
          [q_num |-> 29, q_type |-> "direct",
           q_statement |-> "I see myself as someone who Can be moody"],
          [q_num |-> 34, q_type |-> "inverted",
           q_statement |-> "I see myself as someone who Remains calm in tense situations"],
          [q_num |-> 39, q_type |-> "direct",
           q_statement |-> "I see myself as someone who Gets nervous easily"] >>] >>

\* the bfi44_questions argument of the run: a prefix of each trait's items
BFI44_QUESTIONS ==
  [i \in 1..Len(AllBFI44) |->
     [key |-> AllBFI44[i].key,
      questions |-> SubSeq(AllBFI44[i].questions, 1, NumItems)]]

\* str[0] and str.upper() on the strings they are applied to
FirstChar(s) ==
  CASE s = "openness" -> "o" [] s = "conscientiousness" -> "c"
    [] s = "extraversion" -> "e" [] s = "agreeableness" -> "a"
    [] s = "neuroticism" -> "n"
Upper(c) ==
  CASE c = "o" -> "O" [] c = "c" -> "C" [] c = "e" -> "E" [] c = "a" -> "A"
    [] c = "n" -> "N"

\* variant: the short key is computed once, from the first trait of the dict
trait_key_short_Hoisted(trait_key_long) == Upper(FirstChar(BFI44_QUESTIONS[1].key))

\* trait_key_short = trait_key_long[0].upper()
trait_key_short(trait_key_long) == Upper(FirstChar(trait_key_long))

(***************************************************************************)
(* plot_questionnaire_histograms: match_score, the score of one answer.    *)
(* A str is the sequence of the code points of its characters.             *)
(***************************************************************************)
\* the code points of the str literals that are matched or given as answers;
\* a literal with characters outside ASCII is named by its Python escapes
Chars(text) ==
  CASE text = "disagree strongly with the statement" ->
        <<100, 105, 115, 97, 103, 114, 101, 101, 32, 115, 116, 114, 111,
          110, 103, 108, 121, 32, 119, 105, 116, 104, 32, 116, 104, 101, 32,
          115, 116, 97, 116, 101, 109, 101, 110, 116>>
    [] text = "disagree a little with the statement" ->
        <<100, 105, 115, 97, 103, 114, 101, 101, 32, 97, 32, 108, 105, 116,
          116, 108, 101, 32, 119, 105, 116, 104, 32, 116, 104, 101, 32, 115,
          116, 97, 116, 101, 109, 101, 110, 116>>
    [] text = "agree nor disagree with the statement" ->
        <<97, 103, 114, 101, 101, 32, 110, 111, 114, 32, 100, 105, 115, 97,
          103, 114, 101, 101, 32, 119, 105, 116, 104, 32, 116, 104, 101, 32,
          115, 116, 97, 116, 101, 109, 101, 110, 116>>
    [] text = "agree a little with the statement" ->
        <<97, 103, 114, 101, 101, 32, 97, 32, 108, 105, 116, 116, 108, 101,
          32, 119, 105, 116, 104, 32, 116, 104, 101, 32, 115, 116, 97, 116,
          101, 109, 101, 110, 116>>
    [] text = "agree strongly with the statement" ->
        <<97, 103, 114, 101, 101, 32, 115, 116, 114, 111, 110, 103, 108,
          121, 32, 119, 105, 116, 104, 32, 116, 104, 101, 32, 115, 116, 97,
          116, 101, 109, 101, 110, 116>>
    [] text = "" ->
        << >>
    [] text = "None" ->
        <<78, 111, 110, 101>>
    [] text = "i am not sure" ->
        <<105, 32, 97, 109, 32, 110, 111, 116, 32, 115, 117, 114, 101>>
    [] text = "agree" ->
        <<97, 103, 114, 101, 101>>
    [] text = "disagree strongly" ->
        <<100, 105, 115, 97, 103, 114, 101, 101, 32, 115, 116, 114, 111,
          110, 103, 108, 121>>
    [] text = "agree a little with statement" ->
        <<97, 103, 114, 101, 101, 32, 97, 32, 108, 105, 116, 116, 108, 101,
          32, 119, 105, 116, 104, 32, 115, 116, 97, 116, 101, 109, 101, 110,
          116>>
    [] text = "agree  strongly with the statement" ->
        <<97, 103, 114, 101, 101, 32, 32, 115, 116, 114, 111, 110, 103, 108,
          121, 32, 119, 105, 116, 104, 32, 116, 104, 101, 32, 115, 116, 97,
          116, 101, 109, 101, 110, 116>>
    [] text = "agree strongly w\\u0130th the statement" ->
        <<97, 103, 114, 101, 101, 32, 115, 116, 114, 111, 110, 103, 108,
          121, 32, 119, 304, 116, 104, 32, 116, 104, 101, 32, 115, 116, 97,
          116, 101, 109, 101, 110, 116>>
    [] text = "\\u212a\\u03a3" ->
        <<8490, 931>>

\* c.isspace(): the code points str.strip() takes for whitespace
Whitespace ==
  (9..13) \cup (28..32) \cup {133, 160, 5760} \cup (8192..8202)
    \cup {8232, 8233, 8239, 8287, 12288}

\* the lower-case mapping of the interpreter's Unicode database (14.0.0) above
\* ASCII, <<lo, hi, step, delta>>: each of lo, lo + step, ..., hi lowers to
\* itself plus delta
LowerRuns ==
  <<<<192,214,1,32>>, <<216,222,1,32>>, <<256,302,2,1>>, <<306,310,2,1>>,
    <<313,327,2,1>>, <<330,374,2,1>>, <<376,376,1,-121>>, <<377,381,2,1>>,
    <<385,385,1,210>>, <<386,388,2,1>>, <<390,390,1,206>>, <<391,391,1,1>>,
    <<393,394,1,205>>, <<395,395,1,1>>, <<398,398,1,79>>, <<399,399,1,202>>,
    <<400,400,1,203>>, <<401,401,1,1>>, <<403,403,1,205>>,
    <<404,404,1,207>>, <<406,406,1,211>>, <<407,407,1,209>>,
    <<408,408,1,1>>, <<412,412,1,211>>, <<413,413,1,213>>,
    <<415,415,1,214>>, <<416,420,2,1>>, <<422,422,1,218>>, <<423,423,1,1>>,
    <<425,425,1,218>>, <<428,428,1,1>>, <<430,430,1,218>>, <<431,431,1,1>>,
    <<433,434,1,217>>, <<435,437,2,1>>, <<439,439,1,219>>, <<440,440,1,1>>,
    <<444,444,1,1>>, <<452,452,1,2>>, <<453,453,1,1>>, <<455,455,1,2>>,
    <<456,456,1,1>>, <<458,458,1,2>>, <<459,475,2,1>>, <<478,494,2,1>>,
    <<497,497,1,2>>, <<498,500,2,1>>, <<502,502,1,-97>>, <<503,503,1,-56>>,
    <<504,542,2,1>>, <<544,544,1,-130>>, <<546,562,2,1>>,
    <<570,570,1,10795>>, <<571,571,1,1>>, <<573,573,1,-163>>,
    <<574,574,1,10792>>, <<577,577,1,1>>, <<579,579,1,-195>>,
    <<580,580,1,69>>, <<581,581,1,71>>, <<582,590,2,1>>, <<880,882,2,1>>,
    <<886,886,1,1>>, <<895,895,1,116>>, <<902,902,1,38>>, <<904,906,1,37>>,
    <<908,908,1,64>>, <<910,911,1,63>>, <<913,929,1,32>>, <<931,939,1,32>>,
    <<975,975,1,8>>, <<984,1006,2,1>>, <<1012,1012,1,-60>>,
    <<1015,1015,1,1>>, <<1017,1017,1,-7>>, <<1018,1018,1,1>>,
    <<1021,1023,1,-130>>, <<1024,1039,1,80>>, <<1040,1071,1,32>>,
    <<1120,1152,2,1>>, <<1162,1214,2,1>>, <<1216,1216,1,15>>,
    <<1217,1229,2,1>>, <<1232,1326,2,1>>, <<1329,1366,1,48>>,
    <<4256,4293,1,7264>>, <<4295,4295,1,7264>>, <<4301,4301,1,7264>>,
    <<5024,5103,1,38864>>, <<5104,5109,1,8>>, <<7312,7354,1,-3008>>,
    <<7357,7359,1,-3008>>, <<7680,7828,2,1>>, <<7838,7838,1,-7615>>,
    <<7840,7934,2,1>>, <<7944,7951,1,-8>>, <<7960,7965,1,-8>>,
    <<7976,7983,1,-8>>, <<7992,7999,1,-8>>, <<8008,8013,1,-8>>,
    <<8025,8031,2,-8>>, <<8040,8047,1,-8>>, <<8072,8079,1,-8>>,
    <<8088,8095,1,-8>>, <<8104,8111,1,-8>>, <<8120,8121,1,-8>>,
    <<8122,8123,1,-74>>, <<8124,8124,1,-9>>, <<8136,8139,1,-86>>,
    <<8140,8140,1,-9>>, <<8152,8153,1,-8>>, <<8154,8155,1,-100>>,
    <<8168,8169,1,-8>>, <<8170,8171,1,-112>>, <<8172,8172,1,-7>>,
    <<8184,8185,1,-128>>, <<8186,8187,1,-126>>, <<8188,8188,1,-9>>,
    <<8486,8486,1,-7517>>, <<8490,8490,1,-8383>>, <<8491,8491,1,-8262>>,
    <<8498,8498,1,28>>, <<8544,8559,1,16>>, <<8579,8579,1,1>>,
    <<9398,9423,1,26>>, <<11264,11311,1,48>>, <<11360,11360,1,1>>,
    <<11362,11362,1,-10743>>, <<11363,11363,1,-3814>>,
    <<11364,11364,1,-10727>>, <<11367,11371,2,1>>, <<11373,11373,1,-10780>>,
    <<11374,11374,1,-10749>>, <<11375,11375,1,-10783>>,
    <<11376,11376,1,-10782>>, <<11378,11378,1,1>>, <<11381,11381,1,1>>,
    <<11390,11391,1,-10815>>, <<11392,11490,2,1>>, <<11499,11501,2,1>>,
    <<11506,11506,1,1>>, <<42560,42604,2,1>>, <<42624,42650,2,1>>,
    <<42786,42798,2,1>>, <<42802,42862,2,1>>, <<42873,42875,2,1>>,
    <<42877,42877,1,-35332>>, <<42878,42886,2,1>>, <<42891,42891,1,1>>,
    <<42893,42893,1,-42280>>, <<42896,42898,2,1>>, <<42902,42920,2,1>>,
    <<42922,42922,1,-42308>>, <<42923,42923,1,-42319>>,
    <<42924,42924,1,-42315>>, <<42925,42925,1,-42305>>,
    <<42926,42926,1,-42308>>, <<42928,42928,1,-42258>>,
    <<42929,42929,1,-42282>>, <<42930,42930,1,-42261>>,
    <<42931,42931,1,928>>, <<42932,42946,2,1>>, <<42948,42948,1,-48>>,
    <<42949,42949,1,-42307>>, <<42950,42950,1,-35384>>, <<42951,42953,2,1>>,
    <<42960,42960,1,1>>, <<42966,42968,2,1>>, <<42997,42997,1,1>>,
    <<65313,65338,1,32>>, <<66560,66599,1,40>>, <<66736,66771,1,40>>,
    <<66928,66938,1,39>>, <<66940,66954,1,39>>, <<66956,66962,1,39>>,
    <<66964,66965,1,39>>, <<68736,68786,1,64>>, <<71840,71871,1,32>>,
    <<93760,93791,1,32>>, <<125184,125217,1,34>>>>

\* the Cased property of the database, <<lo, hi>>: every code point of lo..hi
CasedRanges ==
  <<<<65,90>>, <<97,122>>, <<170,170>>, <<181,181>>, <<186,186>>,
    <<192,214>>, <<216,246>>, <<248,442>>, <<444,447>>, <<452,659>>,
    <<661,696>>, <<704,705>>, <<736,740>>, <<837,837>>, <<880,883>>,
    <<886,887>>, <<890,893>>, <<895,895>>, <<902,902>>, <<904,906>>,
    <<908,908>>, <<910,929>>, <<931,1013>>, <<1015,1153>>, <<1162,1327>>,
    <<1329,1366>>, <<1376,1416>>, <<4256,4293>>, <<4295,4295>>,
    <<4301,4301>>, <<4304,4346>>, <<4349,4351>>, <<5024,5109>>,
    <<5112,5117>>, <<7296,7304>>, <<7312,7354>>, <<7357,7359>>,
    <<7424,7615>>, <<7680,7957>>, <<7960,7965>>, <<7968,8005>>,
    <<8008,8013>>, <<8016,8023>>, <<8025,8025>>, <<8027,8027>>,
    <<8029,8029>>, <<8031,8061>>, <<8064,8116>>, <<8118,8124>>,
    <<8126,8126>>, <<8130,8132>>, <<8134,8140>>, <<8144,8147>>,
    <<8150,8155>>, <<8160,8172>>, <<8178,8180>>, <<8182,8188>>,
    <<8305,8305>>, <<8319,8319>>, <<8336,8348>>, <<8450,8450>>,
    <<8455,8455>>, <<8458,8467>>, <<8469,8469>>, <<8473,8477>>,
    <<8484,8484>>, <<8486,8486>>, <<8488,8488>>, <<8490,8493>>,
    <<8495,8500>>, <<8505,8505>>, <<8508,8511>>, <<8517,8521>>,
    <<8526,8526>>, <<8544,8575>>, <<8579,8580>>, <<9398,9449>>,
    <<11264,11492>>, <<11499,11502>>, <<11506,11507>>, <<11520,11557>>,
    <<11559,11559>>, <<11565,11565>>, <<42560,42605>>, <<42624,42653>>,
    <<42786,42887>>, <<42891,42894>>, <<42896,42954>>, <<42960,42961>>,
    <<42963,42963>>, <<42965,42969>>, <<42997,42998>>, <<43000,43002>>,
    <<43824,43866>>, <<43868,43880>>, <<43888,43967>>, <<64256,64262>>,
    <<64275,64279>>, <<65313,65338>>, <<65345,65370>>, <<66560,66639>>,
    <<66736,66771>>, <<66776,66811>>, <<66928,66938>>, <<66940,66954>>,
    <<66956,66962>>, <<66964,66965>>, <<66967,66977>>, <<66979,66993>>,
    <<66995,67001>>, <<67003,67004>>, <<67456,67456>>, <<67459,67461>>,
    <<67463,67504>>, <<67506,67514>>, <<68736,68786>>, <<68800,68850>>,
    <<71840,71903>>, <<93760,93823>>, <<119808,119892>>, <<119894,119964>>,
    <<119966,119967>>, <<119970,119970>>, <<119973,119974>>,
    <<119977,119980>>, <<119982,119993>>, <<119995,119995>>,
    <<119997,120003>>, <<120005,120069>>, <<120071,120074>>,
    <<120077,120084>>, <<120086,120092>>, <<120094,120121>>,
    <<120123,120126>>, <<120128,120132>>, <<120134,120134>>,
    <<120138,120144>>, <<120146,120485>>, <<120488,120512>>,
    <<120514,120538>>, <<120540,120570>>, <<120572,120596>>,
    <<120598,120628>>, <<120630,120654>>, <<120656,120686>>,
    <<120688,120712>>, <<120714,120744>>, <<120746,120770>>,
    <<120772,120779>>, <<122624,122633>>, <<122635,122654>>,
    <<125184,125251>>, <<127280,127305>>, <<127312,127337>>,
    <<127344,127369>>>>

\* the Case_Ignorable property of the database, <<lo, hi>>
CaseIgnorableRanges ==
  <<<<39,39>>, <<46,46>>, <<58,58>>, <<94,94>>, <<96,96>>, <<168,168>>,
    <<173,173>>, <<175,175>>, <<180,180>>, <<183,184>>, <<688,879>>,
    <<884,885>>, <<890,890>>, <<900,901>>, <<903,903>>, <<1155,1161>>,
    <<1369,1369>>, <<1375,1375>>, <<1425,1469>>, <<1471,1471>>,
    <<1473,1474>>, <<1476,1477>>, <<1479,1479>>, <<1524,1524>>,
    <<1536,1541>>, <<1552,1562>>, <<1564,1564>>, <<1600,1600>>,
    <<1611,1631>>, <<1648,1648>>, <<1750,1757>>, <<1759,1768>>,
    <<1770,1773>>, <<1807,1807>>, <<1809,1809>>, <<1840,1866>>,
    <<1958,1968>>, <<2027,2037>>, <<2042,2042>>, <<2045,2045>>,
    <<2070,2093>>, <<2137,2139>>, <<2184,2184>>, <<2192,2193>>,
    <<2200,2207>>, <<2249,2306>>, <<2362,2362>>, <<2364,2364>>,
    <<2369,2376>>, <<2381,2381>>, <<2385,2391>>, <<2402,2403>>,
    <<2417,2417>>, <<2433,2433>>, <<2492,2492>>, <<2497,2500>>,
    <<2509,2509>>, <<2530,2531>>, <<2558,2558>>, <<2561,2562>>,
    <<2620,2620>>, <<2625,2626>>, <<2631,2632>>, <<2635,2637>>,
    <<2641,2641>>, <<2672,2673>>, <<2677,2677>>, <<2689,2690>>,
    <<2748,2748>>, <<2753,2757>>, <<2759,2760>>, <<2765,2765>>,
    <<2786,2787>>, <<2810,2815>>, <<2817,2817>>, <<2876,2876>>,
    <<2879,2879>>, <<2881,2884>>, <<2893,2893>>, <<2901,2902>>,
    <<2914,2915>>, <<2946,2946>>, <<3008,3008>>, <<3021,3021>>,
    <<3072,3072>>, <<3076,3076>>, <<3132,3132>>, <<3134,3136>>,
    <<3142,3144>>, <<3146,3149>>, <<3157,3158>>, <<3170,3171>>,
    <<3201,3201>>, <<3260,3260>>, <<3263,3263>>, <<3270,3270>>,
    <<3276,3277>>, <<3298,3299>>, <<3328,3329>>, <<3387,3388>>,
    <<3393,3396>>, <<3405,3405>>, <<3426,3427>>, <<3457,3457>>,
    <<3530,3530>>, <<3538,3540>>, <<3542,3542>>, <<3633,3633>>,
    <<3636,3642>>, <<3654,3662>>, <<3761,3761>>, <<3764,3772>>,
    <<3782,3782>>, <<3784,3789>>, <<3864,3865>>, <<3893,3893>>,
    <<3895,3895>>, <<3897,3897>>, <<3953,3966>>, <<3968,3972>>,
    <<3974,3975>>, <<3981,3991>>, <<3993,4028>>, <<4038,4038>>,
    <<4141,4144>>, <<4146,4151>>, <<4153,4154>>, <<4157,4158>>,
    <<4184,4185>>, <<4190,4192>>, <<4209,4212>>, <<4226,4226>>,
    <<4229,4230>>, <<4237,4237>>, <<4253,4253>>, <<4348,4348>>,
    <<4957,4959>>, <<5906,5908>>, <<5938,5939>>, <<5970,5971>>,
    <<6002,6003>>, <<6068,6069>>, <<6071,6077>>, <<6086,6086>>,
    <<6089,6099>>, <<6103,6103>>, <<6109,6109>>, <<6155,6159>>,
    <<6211,6211>>, <<6277,6278>>, <<6313,6313>>, <<6432,6434>>,
    <<6439,6440>>, <<6450,6450>>, <<6457,6459>>, <<6679,6680>>,
    <<6683,6683>>, <<6742,6742>>, <<6744,6750>>, <<6752,6752>>,
    <<6754,6754>>, <<6757,6764>>, <<6771,6780>>, <<6783,6783>>,
    <<6823,6823>>, <<6832,6862>>, <<6912,6915>>, <<6964,6964>>,
    <<6966,6970>>, <<6972,6972>>, <<6978,6978>>, <<7019,7027>>,
    <<7040,7041>>, <<7074,7077>>, <<7080,7081>>, <<7083,7085>>,
    <<7142,7142>>, <<7144,7145>>, <<7149,7149>>, <<7151,7153>>,
    <<7212,7219>>, <<7222,7223>>, <<7288,7293>>, <<7376,7378>>,
    <<7380,7392>>, <<7394,7400>>, <<7405,7405>>, <<7412,7412>>,
    <<7416,7417>>, <<7468,7530>>, <<7544,7544>>, <<7579,7679>>,
    <<8125,8125>>, <<8127,8129>>, <<8141,8143>>, <<8157,8159>>,
    <<8173,8175>>, <<8189,8190>>, <<8203,8207>>, <<8216,8217>>,
    <<8228,8228>>, <<8231,8231>>, <<8234,8238>>, <<8288,8292>>,
    <<8294,8303>>, <<8305,8305>>, <<8319,8319>>, <<8336,8348>>,
    <<8400,8432>>, <<11388,11389>>, <<11503,11505>>, <<11631,11631>>,
    <<11647,11647>>, <<11744,11775>>, <<11823,11823>>, <<12293,12293>>,
    <<12330,12333>>, <<12337,12341>>, <<12347,12347>>, <<12441,12446>>,
    <<12540,12542>>, <<40981,40981>>, <<42232,42237>>, <<42508,42508>>,
    <<42607,42610>>, <<42612,42621>>, <<42623,42623>>, <<42652,42655>>,
    <<42736,42737>>, <<42752,42785>>, <<42864,42864>>, <<42888,42890>>,
    <<42994,42996>>, <<43000,43001>>, <<43010,43010>>, <<43014,43014>>,
    <<43019,43019>>, <<43045,43046>>, <<43052,43052>>, <<43204,43205>>,
    <<43232,43249>>, <<43263,43263>>, <<43302,43309>>, <<43335,43345>>,
    <<43392,43394>>, <<43443,43443>>, <<43446,43449>>, <<43452,43453>>,
    <<43471,43471>>, <<43493,43494>>, <<43561,43566>>, <<43569,43570>>,
    <<43573,43574>>, <<43587,43587>>, <<43596,43596>>, <<43632,43632>>,
    <<43644,43644>>, <<43696,43696>>, <<43698,43700>>, <<43703,43704>>,
    <<43710,43711>>, <<43713,43713>>, <<43741,43741>>, <<43756,43757>>,
    <<43763,43764>>, <<43766,43766>>, <<43867,43871>>, <<43881,43883>>,
    <<44005,44005>>, <<44008,44008>>, <<44013,44013>>, <<64286,64286>>,
    <<64434,64450>>, <<65024,65039>>, <<65043,65043>>, <<65056,65071>>,
    <<65106,65106>>, <<65109,65109>>, <<65279,65279>>, <<65287,65287>>,
    <<65294,65294>>, <<65306,65306>>, <<65342,65342>>, <<65344,65344>>,
    <<65392,65392>>, <<65438,65439>>, <<65507,65507>>, <<65529,65531>>,
    <<66045,66045>>, <<66272,66272>>, <<66422,66426>>, <<67456,67461>>,
    <<67463,67504>>, <<67506,67514>>, <<68097,68099>>, <<68101,68102>>,
    <<68108,68111>>, <<68152,68154>>, <<68159,68159>>, <<68325,68326>>,
    <<68900,68903>>, <<69291,69292>>, <<69446,69456>>, <<69506,69509>>,
    <<69633,69633>>, <<69688,69702>>, <<69744,69744>>, <<69747,69748>>,
    <<69759,69761>>, <<69811,69814>>, <<69817,69818>>, <<69821,69821>>,
    <<69826,69826>>, <<69837,69837>>, <<69888,69890>>, <<69927,69931>>,
    <<69933,69940>>, <<70003,70003>>, <<70016,70017>>, <<70070,70078>>,
    <<70089,70092>>, <<70095,70095>>, <<70191,70193>>, <<70196,70196>>,
    <<70198,70199>>, <<70206,70206>>, <<70367,70367>>, <<70371,70378>>,
    <<70400,70401>>, <<70459,70460>>, <<70464,70464>>, <<70502,70508>>,
    <<70512,70516>>, <<70712,70719>>, <<70722,70724>>, <<70726,70726>>,
    <<70750,70750>>, <<70835,70840>>, <<70842,70842>>, <<70847,70848>>,
    <<70850,70851>>, <<71090,71093>>, <<71100,71101>>, <<71103,71104>>,
    <<71132,71133>>, <<71219,71226>>, <<71229,71229>>, <<71231,71232>>,
    <<71339,71339>>, <<71341,71341>>, <<71344,71349>>, <<71351,71351>>,
    <<71453,71455>>, <<71458,71461>>, <<71463,71467>>, <<71727,71735>>,
    <<71737,71738>>, <<71995,71996>>, <<71998,71998>>, <<72003,72003>>,
    <<72148,72151>>, <<72154,72155>>, <<72160,72160>>, <<72193,72202>>,
    <<72243,72248>>, <<72251,72254>>, <<72263,72263>>, <<72273,72278>>,
    <<72281,72283>>, <<72330,72342>>, <<72344,72345>>, <<72752,72758>>,
    <<72760,72765>>, <<72767,72767>>, <<72850,72871>>, <<72874,72880>>,
    <<72882,72883>>, <<72885,72886>>, <<73009,73014>>, <<73018,73018>>,
    <<73020,73021>>, <<73023,73029>>, <<73031,73031>>, <<73104,73105>>,
    <<73109,73109>>, <<73111,73111>>, <<73459,73460>>, <<78896,78904>>,
    <<92912,92916>>, <<92976,92982>>, <<92992,92995>>, <<94031,94031>>,
    <<94095,94111>>, <<94176,94177>>, <<94179,94180>>, <<110576,110579>>,
    <<110581,110587>>, <<110589,110590>>, <<113821,113822>>,
    <<113824,113827>>, <<118528,118573>>, <<118576,118598>>,
    <<119143,119145>>, <<119155,119170>>, <<119173,119179>>,
    <<119210,119213>>, <<119362,119364>>, <<121344,121398>>,
    <<121403,121452>>, <<121461,121461>>, <<121476,121476>>,
    <<121499,121503>>, <<121505,121519>>, <<122880,122886>>,
    <<122888,122904>>, <<122907,122913>>, <<122915,122916>>,
    <<122918,122922>>, <<123184,123197>>, <<123566,123566>>,
    <<123628,123631>>, <<125136,125142>>, <<125252,125259>>,
    <<127995,127999>>, <<917505,917505>>, <<917536,917631>>,
    <<917760,917999>>>>

InRanges(c, rs) == \E i \in 1..Len(rs) : rs[i][1] <= c /\ c <= rs[i][2]
IsCased(c) == InRanges(c, CasedRanges)
IsCaseIgnorable(c) == InRanges(c, CaseIgnorableRanges)

\* str.lower() of one character out of context: the code points it becomes.
\* U+0130 becomes two, 'i' and U+0307; every other one becomes one.
char_lower(c) ==
  IF c < 128 THEN (IF c \in 65..90 THEN <<c + 32>> ELSE <<c>>)
  ELSE IF c = 304 THEN <<105, 775>>
  ELSE LET hits == { i \in 1..Len(LowerRuns) :
                       /\ LowerRuns[i][1] <= c
                       /\ c <= LowerRuns[i][2]
                       /\ (c - LowerRuns[i][1]) % LowerRuns[i][3] = 0 }
       IN IF hits = {} THEN <<c>>
          ELSE <<c + LowerRuns[CHOOSE i \in hits : TRUE][4]>>

\* the capital sigma at s[i] is final: the nearest character before it that
\* is not case-ignorable is cased, and the nearest such after it, if any, is not
final_sigma(s, i) ==
  LET before == { j \in 1..(i - 1) : ~IsCaseIgnorable(s[j]) }
      after  == { j \in (i + 1)..Len(s) : ~IsCaseIgnorable(s[j]) }
  IN /\ before # {}
     /\ IsCased(s[CHOOSE j \in before : \A k \in before : k <= j])
     /\ \/ after = {}
        \/ ~IsCased(s[CHOOSE j \in after : \A k \in after : j <= k])

\* str.lower(): each character lowered, U+03A3 to U+03C2 where it is final
\* and to U+03C3 elsewhere
str_lower(s) ==
  LET RECURSIVE from(_)
      from(i) ==
        IF i > Len(s) THEN << >>
        ELSE (IF s[i] = 931
              THEN (IF final_sigma(s, i) THEN <<962>> ELSE <<963>>)
              ELSE char_lower(s[i])) \o from(i + 1)
  IN from(1)

\* the upper-case and the capitalized form of a text of ASCII letters, as the
\* answers are given in; code points outside ASCII are left as they are
AsciiUpper(s) ==
  [i \in 1..Len(s) |-> IF s[i] \in 97..122 THEN s[i] - 32 ELSE s[i]]
AsciiCapitalize(s) ==
  [i \in 1..Len(s) |->
     IF i = 1 THEN (IF s[i] \in 97..122 THEN s[i] - 32 ELSE s[i])
     ELSE (IF s[i] \in 65..90 THEN s[i] + 32 ELSE s[i])]

\* str.strip(): leading and trailing whitespace removed
str_strip(s) ==
  LET kept == { i \in 1..Len(s) : s[i] \notin Whitespace }
  IN IF kept = {} THEN << >>
     ELSE SubSeq(s, CHOOSE i \in kept : \A j \in kept : i <= j,
                    CHOOSE i \in kept : \A j \in kept : j <= i)

\* text in s: s has text as a run of consecutive characters
str_in(text, s) ==
  \E i \in 0..(Len(s) - Len(text)) : SubSeq(s, i + 1, i + Len(text)) = text

\* a cell of the Answer column: a str, or the None a reply without text leaves
StrAnswer(chars) == [isNone |-> FALSE, chars |-> chars]
NoneAnswer == [isNone |-> TRUE, chars |-> << >>]

\* str(answer)
str_of(answer) == IF answer.isNone THEN Chars("None") ELSE answer.chars

\* variant: the phrases are tried from the last of the mapping to the first
match_score_LastFirst(answer, scores_mapping) ==
  LET answer_clean == str_lower(str_strip(str_of(answer)))
      RECURSIVE items(_)
      items(i) ==
        IF i < 1 THEN 3
        ELSE IF str_in(Chars(scores_mapping[i].text), answer_clean)
        THEN scores_mapping[i].score
        ELSE items(i - 1)
  IN items(Len(scores_mapping))

\* match_score(answer, scores_mapping): the score of the first phrase of the
\* mapping, in its order, that the cleaned answer contains; 3 when none is
match_score(answer, scores_mapping) ==
  LET answer_clean == str_lower(str_strip(str_of(answer)))
      RECURSIVE items(_)
      items(i) ==
        IF i > Len(scores_mapping) THEN 3
        ELSE IF str_in(Chars(scores_mapping[i].text), answer_clean)
        THEN scores_mapping[i].score
        ELSE items(i + 1)
  IN items(1)

\* answers that are none of the phrases; the last two hold U+0130 in place
\* of an "i", and the Kelvin sign before a capital sigma
OtherAnswers ==
  { "", "None", "i am not sure", "agree", "disagree strongly",
    "agree a little with statement", "agree  strongly with the statement",
    "agree strongly w\\u0130th the statement", "\\u212a\\u03a3" }

\* the whitespace put around an answer: blank, newline, form feed and
\* no-break space
PadChars == { 32, 10, 12, 160 }

\* runs of at most n of these characters
Pads(n) == UNION { [1..k -> PadChars] : k \in 0..n }

\* the letter cases an answer is given in
LetterCases(s) == { s, AsciiUpper(s), AsciiCapitalize(s) }

\* the answers match_score is applied to: every phrase of the vocabulary and
\* every other answer, in three letter cases, between runs of whitespace of
\* at most maxpad characters, and the None answer
AnswerInputs(maxpad) ==
  LET texts == { BFI44_SCORES_DICT[i].text : i \in 1..Len(BFI44_SCORES_DICT) }
                 \cup OtherAnswers
  IN { StrAnswer(l \o c \o r) :
         l \in Pads(maxpad), r \in Pads(maxpad),
         c \in UNION { LetterCases(Chars(t)) : t \in texts } }
     \cup {NoneAnswer}


(***************************************************************************)
(* Values: Python None, int, str, and a nested dict (contents not kept).  *)
(***************************************************************************)
None    == [kind |-> "none", num |-> 0, str |-> ""]
IntV(n) == [kind |-> "int", num |-> n, str |-> ""]
StrV(s) == [kind |-> "str", num |-> 0, str |-> s]
ObjV    == [kind |-> "obj", num |-> 0, str |-> ""]
\* marks a key a dict does not hold
Absent  == [kind |-> "absent", num |-> 0, str |-> ""]

(***************************************************************************)
(* Tokens and texts.                                                       *)
(***************************************************************************)
LB     == [t |-> "LB", key |-> "", val |-> None]
RB     == [t |-> "RB", key |-> "", val |-> None]
CM     == [t |-> "CM", key |-> "", val |-> None]
KEY(k) == [t |-> "KEY", key |-> k, val |-> None]
VAL(v) == [t |-> "VAL", key |-> "", val |-> v]
PROSE(w) == [t |-> "PROSE", key |-> w, val |-> None]

\* a str made of the tokens s
Txt(s) == [isNone |-> FALSE, toks |-> s]
\* message.content of a completion that carries no text
NoneText == [isNone |-> TRUE, toks |-> << >>]

\* the keys a judge object is read for, and one key that is never read
Keys == {"score", "clues", "reasoning", "decision type", "other"}
EmptyDict == [k \in Keys |-> Absent]

\* variant: d[k], the missing key is not mapped to None
dict_get_KeyError(d, k) == d[k]

\* dict.get(k): None when the key is missing
dict_get(d, k) == IF d[k] = Absent THEN None ELSE d[k]

(***************************************************************************)
(* re.search(r'\{.*\}', text, re.DOTALL): the span from the first "{" to   *)
(* the last "}" after it; a TypeError when text is None.                   *)
(***************************************************************************)
FirstLB(toks) ==
  IF \E i \in 1..Len(toks) : toks[i].t = "LB"
  THEN CHOOSE i \in 1..Len(toks) :
         /\ toks[i].t = "LB"
         /\ \A j \in 1..(i-1) : toks[j].t # "LB"
  ELSE 0

LastRB(toks) ==
  IF \E i \in 1..Len(toks) : toks[i].t = "RB"
  THEN CHOOSE i \in 1..Len(toks) :
         /\ toks[i].t = "RB"
         /\ \A j \in (i+1)..Len(toks) : toks[j].t # "RB"
  ELSE 0

\* variant: re.search(r'\{.*?\}', ...), the span ends at the first "}" after
\* the first "{"
re_search_NonGreedy(text) ==
  IF text.isNone
  THEN [exc |-> "TypeError", found |-> FALSE, span |-> << >>]
  ELSE LET f == FirstLB(text.toks)
           after == { j \in 1..Len(text.toks) : j > f /\ text.toks[j].t = "RB" }
       IN IF f > 0 /\ after # {}
          THEN [exc |-> "none", found |-> TRUE,
                span |-> SubSeq(text.toks, f,
                                CHOOSE j \in after : \A h \in after : j <= h)]
          ELSE [exc |-> "none", found |-> FALSE, span |-> << >>]

\* re.search(r'\{.*\}', judge_response_raw, re.DOTALL)
re_search(text) ==
  IF text.isNone
  THEN [exc |-> "TypeError", found |-> FALSE, span |-> << >>]
  ELSE LET f == FirstLB(text.toks)
           l == LastRB(text.toks)
       IN IF f > 0 /\ l > f
          THEN [exc |-> "none", found |-> TRUE, span |-> SubSeq(text.toks, f, l)]
          ELSE [exc |-> "none", found |-> FALSE, span |-> << >>]

(***************************************************************************)
(* json.loads on a span that starts with "{": a recursive-descent parse of *)
(*   object := "{" "}" | "{" member ("," member)* "}"                      *)
(*   member := key value          value := scalar | object                 *)
(* A repeated key keeps its last value; anything after the object fails.   *)
(***************************************************************************)
RECURSIVE ParseObject(_, _), ParseMembers(_, _, _), ParseValue(_, _)

ParseValue(toks, i) ==
  IF i > Len(toks) THEN [ok |-> FALSE, next |-> i, val |-> None]
  ELSE IF toks[i].t = "VAL" THEN [ok |-> TRUE, next |-> i + 1, val |-> toks[i].val]
  ELSE IF toks[i].t = "LB"
       THEN LET o == ParseObject(toks, i)
            IN [ok |-> o.ok, next |-> o.next, val |-> ObjV]
  ELSE [ok |-> FALSE, next |-> i, val |-> None]

ParseMembers(toks, i, acc) ==
  IF i > Len(toks) \/ toks[i].t # "KEY"
  THEN [ok |-> FALSE, next |-> i, dict |-> acc]
  ELSE LET v == ParseValue(toks, i + 1)
           d == [acc EXCEPT ![toks[i].key] = v.val]
       IN IF ~v.ok \/ v.next > Len(toks)
          THEN [ok |-> FALSE, next |-> v.next, dict |-> acc]
          ELSE IF toks[v.next].t = "RB"
               THEN [ok |-> TRUE, next |-> v.next + 1, dict |-> d]
          ELSE IF toks[v.next].t = "CM"
               THEN ParseMembers(toks, v.next + 1, d)
          ELSE [ok |-> FALSE, next |-> v.next, dict |-> acc]

ParseObject(toks, i) ==
  IF i + 1 <= Len(toks) /\ toks[i + 1].t = "RB"
  THEN [ok |-> TRUE, next |-> i + 2, dict |-> EmptyDict]
  ELSE ParseMembers(toks, i + 1, EmptyDict)

json_loads(span) ==
  LET o == ParseObject(span, 1)
  IN IF o.ok /\ o.next = Len(span) + 1
     THEN [exc |-> "none", dict |-> o.dict]
     ELSE [exc |-> "JSONDecodeError", dict |-> EmptyDict]

(***************************************************************************)
(* The judge-parsing step of the sweep: the try block, then the handler.   *)
(***************************************************************************)
\* variant: the except clause leaves judge_result as it was, {}
SentinelVerdict_Unset == EmptyDict

\* the dict the except clause builds
SentinelVerdict ==
  [k \in Keys |->
     IF k = "reasoning" THEN StrV("JSON PARSE ERROR")
     ELSE IF k = "other" THEN Absent ELSE None]

\* the try block: the exception it ends with ("none": it ran through)
judge_try(judge_response_raw) ==
  LET match == re_search(judge_response_raw)
  IN IF match.exc # "none" THEN [exc |-> match.exc, judge_result |-> EmptyDict]
     ELSE IF match.found
          THEN LET j == json_loads(match.span)
               IN [exc |-> j.exc, judge_result |-> j.dict]
     ELSE [exc |-> "ValueError", judge_result |-> EmptyDict]

\* variant: "except json.JSONDecodeError"
ExceptException_OnlyJson(exc) == exc = "JSONDecodeError"

\* "except Exception": every exception of the try block is caught
ExceptException(exc) == exc \in {"TypeError", "ValueError", "JSONDecodeError"}

judge_parse(judge_response_raw) ==
  LET r == judge_try(judge_response_raw)
  IN IF r.exc = "none" THEN [raised |-> FALSE, judge_result |-> r.judge_result]
     ELSE IF ExceptException(r.exc)
          THEN [raised |-> FALSE, judge_result |-> SentinelVerdict]
     ELSE [raised |-> TRUE, judge_result |-> EmptyDict]

\* the four judge columns of a row
Verdict(judge_result) ==
  [judge_score         |-> dict_get(judge_result, "score"),
   judge_clues         |-> dict_get(judge_result, "clues"),
   judge_reasoning     |-> dict_get(judge_result, "reasoning"),
   judge_decision_type |-> dict_get(judge_result, "decision type")]

(***************************************************************************)
(* Judge responses the stub judge backend hands out, and the short texts   *)
(* the parser is enumerated on.                                            *)
(***************************************************************************)
FullObject(score, decision) ==
  << LB, KEY("score"), VAL(score), CM, KEY("clues"), VAL(StrV("x")), CM,
     KEY("reasoning"), VAL(StrV("y")), CM,
     KEY("decision type"), VAL(decision), RB >>

JudgeSamples ==
  << \* 'prefix {"score": 1, "clues": "x", "reasoning": "y", "decision type": "Explicit signs"} suffix'
     Txt(<<PROSE("prefix")>> \o FullObject(IntV(1), StrV("Explicit signs")) \o <<PROSE("suffix")>>),
     \* "no json here"
     Txt(<<PROSE("no"), PROSE("json"), PROSE("here")>>),
     \* the pure JSON the judge is asked for
     Txt(FullObject(IntV(-2), StrV("Implicit signs"))),
     \* ""
     Txt(<< >>),
     \* '{"score": "Nondistinguishable", ..., "decision type": "Nondistinguishable"}'
     Txt(FullObject(StrV("Nondistinguishable"), StrV("Nondistinguishable"))),
     \* '{not json}'
     Txt(<<LB, PROSE("not"), PROSE("json"), RB>>),
     \* '{"score": 7, ..., "decision type": "Intuition"}'
     Txt(FullObject(IntV(7), StrV("Intuition"))),
     \* 'sure {"score": 0}'
     Txt(<<PROSE("sure"), LB, KEY("score"), VAL(IntV(0)), RB>>),
     \* '{"score": 2, ..., "decision type": "Maybe"}'
     Txt(FullObject(IntV(2), StrV("Maybe"))),
     \* '{"score": 1} or {"score": 2}'
     Txt(<<LB, KEY("score"), VAL(IntV(1)), RB, PROSE("or"),
           LB, KEY("score"), VAL(IntV(2)), RB>>),
     \* content None
     NoneText,
     \* '{"clues": {"other": 1}, "reasoning": null}'
     Txt(<<LB, KEY("clues"), LB, KEY("other"), VAL(IntV(1)), RB, CM,
           KEY("reasoning"), VAL(None), RB>>),
     \* '} {'
     Txt(<<RB, PROSE("and"), LB>>) >>

Alphabet ==
  { LB, RB, CM, PROSE("x"), KEY("score"), KEY("decision type"),
    VAL(IntV(1)), VAL(StrV("Nondistinguishable")) }

RECURSIVE TokSeqs(_)
\* the token sequences of length n over Alphabet
TokSeqs(n) ==
  IF n = 0 THEN { << >> }
  ELSE { Append(s, a) : s \in TokSeqs(n - 1), a \in Alphabet }

\* the texts of at most maxlen tokens
ShortTexts(maxlen) == UNION { { Txt(s) : s \in TokSeqs(n) } : n \in 0..maxlen }

ParserInputs(maxlen) ==
  ShortTexts(maxlen) \cup { JudgeSamples[i] : i \in 1..Len(JudgeSamples) }

(***************************************************************************)
(* The backend adapters of models/handlers.py.  The environment of a call  *)
(* says whether the client can be constructed, which attempts raise, and    *)
(* what the backend answers when an attempt goes through.                  *)
(***************************************************************************)
\* default of the max_retries argument; no caller passes another value
max_retries == 3

MODEL_FAIL       == Txt(<<PROSE("MODEL_FAIL")>>)
MODEL_NOT_LOADED == Txt(<<PROSE("MODEL_NOT_LOADED")>>)
GENERATION_FAIL  == Txt(<<PROSE("GENERATION_FAIL")>>)

RECURSIVE Pow2(_)
Pow2(n) == IF n = 0 THEN 1 ELSE 2 * Pow2(n - 1)

\* variant: 2 ** (attempt + 1)
wait_time_FromNext(attempt) == Pow2(attempt + 1)

\* wait_time = 2 ** attempt
wait_time(attempt) == Pow2(attempt)

RECURSIVE groq_attempts(_, _, _)
\* the for loop over range(max_retries), from the given attempt on
groq_attempts(env, attempt, waits) ==
  IF attempt >= max_retries
  THEN [text |-> MODEL_FAIL, status |-> "fail", attempts |-> attempt,
        waits |-> waits, raised |-> FALSE]
  ELSE IF ~env.raises[attempt + 1]
       THEN [text |-> env.response, status |-> "ok", attempts |-> attempt + 1,
             waits |-> waits, raised |-> FALSE]
       ELSE groq_attempts(env, attempt + 1, Append(waits, wait_time(attempt)))

\* variant: Groq() is constructed outside the outer try
generate_response_groq_NoOuterTry(model_name, system_prompt, user_prompt, temperature, env) ==
  IF ~env.clientOk
  THEN [text |-> MODEL_FAIL, status |-> "raised", attempts |-> 0,
        waits |-> << >>, raised |-> TRUE]
  ELSE groq_attempts(env, 0, << >>)

\* temperature is kept in tenths (7 is 0.7)
generate_response_groq(model_name, system_prompt, user_prompt, temperature, env) ==
  IF ~env.clientOk
  THEN [text |-> MODEL_FAIL, status |-> "fail", attempts |-> 0,
        waits |-> << >>, raised |-> FALSE]
  ELSE groq_attempts(env, 0, << >>)

\* variant: the local handler retries with the hosted function's backoff loop
hf_generate_response_Retries(self, system_prompt, user_prompt, temperature, env) ==
  IF ~self.loaded
  THEN [text |-> MODEL_NOT_LOADED, status |-> "fail", attempts |-> 0,
        waits |-> << >>, raised |-> FALSE]
  ELSE LET r == groq_attempts(env, 0, << >>)
       IN IF r.status = "fail" THEN [r EXCEPT !.text = GENERATION_FAIL] ELSE r

\* HuggingFaceModelHandler.generate_response: one attempt, no wait
hf_generate_response(self, system_prompt, user_prompt, temperature, env) ==
  IF ~self.loaded
  THEN [text |-> MODEL_NOT_LOADED, status |-> "fail", attempts |-> 0,
        waits |-> << >>, raised |-> FALSE]
  ELSE IF env.raises[1]
       THEN [text |-> GENERATION_FAIL, status |-> "fail", attempts |-> 1,
             waits |-> << >>, raised |-> FALSE]
       ELSE [text |-> env.response, status |-> "ok", attempts |-> 1,
             waits |-> << >>, raised |-> FALSE]

(***************************************************************************)
(* Environments of a call.                                                 *)
(***************************************************************************)
NoRaise   == [i \in 1..max_retries |-> FALSE]
AllRaise  == [i \in 1..max_retries |-> TRUE]
DefaultEnv(response) == [clientOk |-> TRUE, raises |-> NoRaise, response |-> response]
FailingEnv(response) == [clientOk |-> TRUE, raises |-> AllRaise, response |-> response]

\* every pattern of exceptions of a hosted call
GroqEnvs(response) ==
  { [clientOk |-> TRUE, raises |-> r, response |-> response] :
      r \in [1..max_retries -> BOOLEAN] }
  \cup { [clientOk |-> FALSE, raises |-> NoRaise, response |-> response] }

\* a local call makes one attempt: it raises or it does not
HfEnvs(response) ==
  { DefaultEnv(response),
    [clientOk |-> TRUE, raises |-> [i \in 1..max_retries |-> i = 1],
     response |-> response] }

IsDefaultEnv(env) == env.clientOk /\ env.raises = NoRaise

(***************************************************************************)
(* State of a run of main(): the pre-loading of the local models, then the *)
(* text generation sweep of run_text_generation_experiment.                *)
(***************************************************************************)
VARIABLES
  pc,                 \* where main() is
  load_i,             \* position of the pre-loading loop in MODELS_TO_TEST
  hf_handlers,        \* the handlers pre-loaded so far
  model_i,            \* positions of the four nested loops of the sweep
  trait_i,
  trait_score_num,
  question_i,
  current_generation, \* the progress counter
  results_list,       \* the rows appended so far
  last_gen,           \* the generation call of the latest iteration
  last_judge,         \* the judge call of the latest iteration
  last_parse,         \* the outcome of the judge-parsing step of the latest iteration
  failed_iterations,  \* the iterations (by progress number) that appended no row
  failQ,              \* the question the stub backend always fails for (0: none)
  deviations,         \* calls of the outage so far
  judge_text,         \* the text handed to the judge parser on its own
  gen_calls,          \* the times the sweep has invoked a generation backend
  judge_calls         \* the times the sweep has invoked the judge backend

(***************************************************************************)
(* State of run_questionnaire_experiment, and of a second run of it.       *)
(***************************************************************************)
VARIABLES
  q_model_i,                  \* positions of the four nested loops of the sweep
  q_trait_i,
  level_i,
  question_set_i,
  current_q_generation,       \* the progress counter, one per (model, trait, level)
  questionnaire_results_list, \* the rows appended so far
  q_calls,                    \* the backend calls of the run so far
  last_q,                     \* the backend call of the latest iteration
  q_backend,                  \* the backend of the run: the stub or a constant one
  run,                        \* 1 in the first run of the sweep, 2 in the second
  first_table                 \* the table the first run returned

\* plot_questionnaire_histograms, one row of df_plot
VARIABLES
  Answer,                     \* the cell of the Answer column
  Scores                      \* the cell of the Scores column, 0 before it is set

pvars == << Answer, Scores >>

qvars == << q_model_i, q_trait_i, level_i, question_set_i, current_q_generation,
            questionnaire_results_list, q_calls, last_q, q_backend, run,
            first_table >>

vars == << pc, load_i, hf_handlers, model_i, trait_i, trait_score_num,
           question_i, current_generation, results_list, last_gen, last_judge,
           last_parse, failed_iterations, failQ, deviations, judge_text,
           gen_calls, judge_calls,
           q_model_i, q_trait_i, level_i, question_set_i, current_q_generation,
           questionnaire_results_list, q_calls, last_q, q_backend, run,
           first_table, Answer, Scores >>

\* len(models_to_test) * len(traits_definitions["generation"]) * 5 * len(questions)
total_generations ==
  Len(MODELS_TO_TEST) * Len(TraitCodes) * 5 * Len(QUESTIONS)

\* the stub that fails for one question is otherwise well behaved
DeviationBudget == IF failQ = 0 THEN MaxOutage ELSE 0

\* the latest backend call misbehaved
LastCallDeviated ==
  IF last_judge.called THEN ~IsDefaultEnv(last_judge.env)
  ELSE last_gen.called /\ ~IsDefaultEnv(last_gen.env)

\* range(1, 6)
TraitScores == 1..5

\* what the stub backends answer at the n-th iteration
StubAnswer(n) == Txt(<<[t |-> "PROSE", key |-> "answer", val |-> IntV(n)]>>)
StubJudge(n)  == JudgeSamples[((n - 1) % Len(JudgeSamples)) + 1]

NoCall ==
  [called |-> FALSE, handler |-> "", model_name |-> "", temperature |-> 0,
   trait_name |-> "", trait_score_num |-> 0, definition |-> "", low |-> "",
   high |-> "", question |-> "", generated_text |-> Txt(<< >>),
   env |-> DefaultEnv(Txt(<< >>)),
   result |-> [text |-> Txt(<< >>), status |-> "none", attempts |-> 0,
               waits |-> << >>, raised |-> FALSE]]

NoParse == [done |-> FALSE, raised |-> FALSE, judge_result |-> EmptyDict]

NoQCall ==
  [called |-> FALSE, handler |-> "", model_name |-> "", temperature |-> 0,
   trait_key_long |-> "", trait_name |-> "", level |-> "", level_text |-> "",
   options |-> << >>, q_statement |-> "", env |-> DefaultEnv(Txt(<< >>)),
   result |-> [text |-> Txt(<< >>), status |-> "none", attempts |-> 0,
               waits |-> << >>, raised |-> FALSE]]

\* the backend of a run: the stub that answers by call number, or one that
\* gives the same answer and status at every call
StubBackend == [kind |-> "stub", answer |-> Txt(<< >>), status |-> ""]

\* before plot_questionnaire_histograms is entered
PlotIdle ==
  /\ Answer = NoneAnswer
  /\ Scores = 0

\* before run_questionnaire_experiment is entered
QuestionnaireIdle ==
  /\ q_model_i = 1
  /\ q_trait_i = 1
  /\ level_i = 1
  /\ question_set_i = 1
  /\ current_q_generation = 0
  /\ questionnaire_results_list = << >>
  /\ q_calls = 0
  /\ last_q = NoQCall
  /\ q_backend = StubBackend
  /\ run = 1
  /\ first_table = << >>

\* HuggingFaceModelHandler(model_id): _load_model sets model and tokenizer or raises
HuggingFaceModelHandler(model_key, model_id, loads) ==
  [model_key |-> model_key, model_id |-> model_id, loaded |-> loads, raised |-> ~loads]

HandlerOf(model_key) == CHOOSE h \in hf_handlers : h.model_key = model_key

Init ==
  /\ pc = "preload"
  /\ load_i = 1
  /\ hf_handlers = {}
  /\ model_i = 1
  /\ trait_i = 1
  /\ trait_score_num = 1
  /\ question_i = 1
  /\ current_generation = 0
  /\ results_list = << >>
  /\ last_gen = NoCall
  /\ last_judge = NoCall
  /\ last_parse = NoParse
  /\ failed_iterations = {}
  /\ failQ \in 0..NumQuestions
  /\ deviations = 0
  /\ judge_text = Txt(<< >>)
  /\ gen_calls = 0
  /\ judge_calls = 0
  /\ QuestionnaireIdle
  /\ PlotIdle

(***************************************************************************)
(* main(), step 2: one pass of the pre-loading loop.                       *)
(***************************************************************************)
\* variant: a load failure is logged and the loop goes on to the next model
PreloadModel_Continues ==
  /\ pc = "preload"
  /\ LET model_info == MODELS_TO_TEST[load_i]
         next_pc == IF load_i = Len(MODELS_TO_TEST) THEN "text_generation" ELSE "preload"
     IN /\ load_i' = load_i + 1
        /\ pc' = next_pc
        /\ IF model_info.handler = "hf"
           THEN \E loads \in BOOLEAN :
                  LET h == HuggingFaceModelHandler(model_info.model_key,
                                                   model_info.model_id, loads)
                  IN hf_handlers' = IF h.raised THEN hf_handlers
                                    ELSE hf_handlers \cup {h}
           ELSE UNCHANGED hf_handlers
  /\ UNCHANGED << model_i, trait_i, trait_score_num, question_i,
                  current_generation, results_list, last_gen, last_judge,
                  last_parse, failed_iterations, failQ, deviations, judge_text,
                  gen_calls, judge_calls >>
  /\ UNCHANGED qvars
  /\ UNCHANGED pvars

PreloadModel ==
  /\ pc = "preload"
  /\ LET model_info == MODELS_TO_TEST[load_i]
         next_pc == IF load_i = Len(MODELS_TO_TEST) THEN "text_generation" ELSE "preload"
     IN IF model_info.handler = "hf"
        THEN \E loads \in BOOLEAN :
               LET h == HuggingFaceModelHandler(model_info.model_key, model_info.model_id, loads)
               IN IF h.raised
                  THEN /\ pc' = "aborted"
                       /\ UNCHANGED <<load_i, hf_handlers>>
                  ELSE /\ hf_handlers' = hf_handlers \cup {h}
                       /\ load_i' = load_i + 1
                       /\ pc' = next_pc
        ELSE /\ load_i' = load_i + 1
             /\ pc' = next_pc
             /\ UNCHANGED hf_handlers
  /\ UNCHANGED << model_i, trait_i, trait_score_num, question_i,
                  current_generation, results_list, last_gen, last_judge,
                  last_parse, failed_iterations, failQ, deviations, judge_text,
                  gen_calls, judge_calls >>
  /\ UNCHANGED qvars
  /\ UNCHANGED pvars

(***************************************************************************)
(* run_text_generation_experiment: one pass of the innermost loop body.    *)
(***************************************************************************)
\* variant: the score loop is range(5), the row records 0..4
Row_ZeroBased(model_key, model_info, trait_name, score, question, generated_text, judge_result) ==
  [model_key      |-> model_key,
   model_id       |-> model_info.model_id,
   prompted_trait |-> trait_name,
   prompted_score |-> score - 1,
   question       |-> question,
   generated_text |-> generated_text,
   judge_score         |-> Verdict(judge_result).judge_score,
   judge_clues         |-> Verdict(judge_result).judge_clues,
   judge_reasoning     |-> Verdict(judge_result).judge_reasoning,
   judge_decision_type |-> Verdict(judge_result).judge_decision_type]

Row(model_key, model_info, trait_name, score, question, generated_text, judge_result) ==
  [model_key      |-> model_key,
   model_id       |-> model_info.model_id,
   prompted_trait |-> trait_name,
   prompted_score |-> score,
   question       |-> question,
   generated_text |-> generated_text,
   judge_score         |-> Verdict(judge_result).judge_score,
   judge_clues         |-> Verdict(judge_result).judge_clues,
   judge_reasoning     |-> Verdict(judge_result).judge_reasoning,
   judge_decision_type |-> Verdict(judge_result).judge_decision_type]

\* variant: after the last model the loops start again at the first
AdvanceFrom_StartsAgain(q) ==
  IF q < Len(QUESTIONS)
  THEN /\ question_i' = q + 1
       /\ UNCHANGED <<pc, model_i, trait_i, trait_score_num>>
  ELSE IF trait_score_num < 5
  THEN /\ question_i' = 1
       /\ trait_score_num' = trait_score_num + 1
       /\ UNCHANGED <<pc, model_i, trait_i>>
  ELSE IF trait_i < Len(TraitCodes)
  THEN /\ question_i' = 1
       /\ trait_score_num' = 1
       /\ trait_i' = trait_i + 1
       /\ UNCHANGED <<pc, model_i>>
  ELSE /\ question_i' = 1
       /\ trait_score_num' = 1
       /\ trait_i' = 1
       /\ model_i' = IF model_i < Len(MODELS_TO_TEST) THEN model_i + 1 ELSE 1
       /\ UNCHANGED pc

\* the nested for loops move on: question, then score, then trait, then model
AdvanceFrom(q) ==
  IF q < Len(QUESTIONS)
  THEN /\ question_i' = q + 1
       /\ UNCHANGED <<pc, model_i, trait_i, trait_score_num>>
  ELSE IF trait_score_num < 5
  THEN /\ question_i' = 1
       /\ trait_score_num' = trait_score_num + 1
       /\ UNCHANGED <<pc, model_i, trait_i>>
  ELSE IF trait_i < Len(TraitCodes)
  THEN /\ question_i' = 1
       /\ trait_score_num' = 1
       /\ trait_i' = trait_i + 1
       /\ UNCHANGED <<pc, model_i>>
  ELSE IF model_i < Len(MODELS_TO_TEST)
  THEN /\ question_i' = 1
       /\ trait_score_num' = 1
       /\ trait_i' = 1
       /\ model_i' = model_i + 1
       /\ UNCHANGED pc
  ELSE /\ pc' = "text_generation_done"
       /\ UNCHANGED <<model_i, trait_i, trait_score_num, question_i>>

Advance == AdvanceFrom(question_i)

\* variant: no "continue", the row is appended with what there is
SkipAppendsRow(n) ==
  /\ failed_iterations' = failed_iterations \cup {n}
  /\ results_list' = Append(results_list,
        Row(MODELS_TO_TEST[model_i].model_key, MODELS_TO_TEST[model_i],
            TRAITS_DEFINITIONS.generation[TraitCodes[trait_i]].name,
            trait_score_num, QUESTIONS[question_i], MODEL_FAIL, EmptyDict))
  /\ Advance

\* variant: "break" in place of "continue", the rest of the questions is left out
SkipBreaks(n) ==
  /\ failed_iterations' = failed_iterations \cup {n}
  /\ UNCHANGED results_list
  /\ AdvanceFrom(Len(QUESTIONS))

\* variant: a failed iteration is tried again at the same coordinates
SkipRetries(n) ==
  /\ failed_iterations' = failed_iterations \cup {n}
  /\ UNCHANGED results_list
  /\ UNCHANGED <<pc, model_i, trait_i, trait_score_num, question_i>>

\* variant: "return" in place of "continue", the sweep ends at the failure
SkipReturns(n) ==
  /\ failed_iterations' = failed_iterations \cup {n}
  /\ UNCHANGED results_list
  /\ pc' = "text_generation_done"
  /\ UNCHANGED <<model_i, trait_i, trait_score_num, question_i>>

\* the iteration ends at a "continue": no row
Skip(n) ==
  /\ failed_iterations' = failed_iterations \cup {n}
  /\ UNCHANGED results_list
  /\ Advance

\* an exception leaves the sweep and main()
Crash ==
  /\ pc' = "crashed"
  /\ UNCHANGED <<model_i, trait_i, trait_score_num, question_i,
                 results_list, failed_iterations>>

\* variant: the judge is asked through the backend of the model under test
JudgeCall_SameBackend(system_prompt_judge, user_prompt_judge, env) ==
  LET model_info == MODELS_TO_TEST[model_i]
  IN [called |-> TRUE, handler |-> model_info.handler,
      model_name |-> model_info.model_id, temperature |-> 7,
      trait_name |-> system_prompt_judge.trait_name, trait_score_num |-> 0,
      definition |-> system_prompt_judge.definition,
      low |-> system_prompt_judge.low, high |-> system_prompt_judge.high,
      question |-> user_prompt_judge.question,
      generated_text |-> user_prompt_judge.generated_text,
      env |-> env,
      result |-> IF model_info.handler = "groq"
                 THEN generate_response_groq(model_info.model_id, system_prompt_judge,
                                             user_prompt_judge, 7, env)
                 ELSE hf_generate_response(HandlerOf(model_info.model_key),
                                           system_prompt_judge, user_prompt_judge, 7, env)]

\* groq_generate_func(judge_model_id, system_prompt_judge, user_prompt_judge,
\* temperature=0.0), with what it was called with
JudgeCall(system_prompt_judge, user_prompt_judge, env) ==
  [called |-> TRUE, handler |-> "groq",
   model_name |-> JUDGE_MODEL_ID, temperature |-> 0,
   trait_name |-> system_prompt_judge.trait_name, trait_score_num |-> 0,
   definition |-> system_prompt_judge.definition,
   low |-> system_prompt_judge.low, high |-> system_prompt_judge.high,
   question |-> user_prompt_judge.question,
   generated_text |-> user_prompt_judge.generated_text,
   env |-> env,
   result |-> generate_response_groq(JUDGE_MODEL_ID, system_prompt_judge,
                                     user_prompt_judge, 0, env)]

\* variant: the status of the generation call is not looked at
GenerationFailed_Ignored(gen) == FALSE

\* if status == 'fail': ... continue, after the generation call
GenerationFailed(gen) == gen.status = "fail"

GenerationIteration ==
  /\ pc = "text_generation"
  /\ LET model_info     == MODELS_TO_TEST[model_i]
         model_key      == model_info.model_key
         trait_key      == TraitCodes[trait_i]
         trait_gen_info == TRAITS_DEFINITIONS.generation[trait_key]
         trait_name     == trait_gen_info.name
         question       == QUESTIONS[question_i]
         n              == current_generation + 1
         stubFails      == question_i = failQ
         genEnvs        == IF stubFails THEN {FailingEnv(StubAnswer(n))}
                           ELSE IF model_info.handler = "groq" THEN GroqEnvs(StubAnswer(n))
                           ELSE HfEnvs(StubAnswer(n))
     IN \E genEnv \in genEnvs, judgeEnv \in GroqEnvs(StubJudge(n)) :
          LET system_prompt_generate ==
                [trait_name |-> trait_name, trait_score_num |-> trait_score_num,
                 low |-> trait_gen_info.low, high |-> trait_gen_info.high]
              user_prompt_generate == [question |-> question]
              gen == IF model_info.handler = "groq"
                     THEN generate_response_groq(model_info.model_id,
                            system_prompt_generate, user_prompt_generate, 7, genEnv)
                     ELSE hf_generate_response(HandlerOf(model_key),
                            system_prompt_generate, user_prompt_generate, 7, genEnv)
              generated_text == gen.text
              trait_class_info == TRAITS_DEFINITIONS.classification[trait_key]
              system_prompt_judge ==
                [trait_name |-> trait_name, definition |-> trait_class_info.definition,
                 high |-> trait_class_info.high, low |-> trait_class_info.low]
              user_prompt_judge == [question |-> question, generated_text |-> generated_text]
              judge_call == JudgeCall(system_prompt_judge, user_prompt_judge, judgeEnv)
              judge == judge_call.result
              judge_response_raw == judge.text
              parsed == judge_parse(judge_response_raw)
              genCost   == IF stubFails \/ IsDefaultEnv(genEnv) THEN 0 ELSE 1
              judgeCost == IF IsDefaultEnv(judgeEnv) THEN 0 ELSE 1
          IN /\ deviations + genCost + judgeCost <= DeviationBudget
             /\ genCost = 1 => (deviations = 0 \/ LastCallDeviated)
             /\ judgeCost = 1 => (deviations = 0 \/ genCost = 1)
             /\ gen.status = "fail" => judgeCost = 0
             /\ deviations' = deviations + genCost + judgeCost
             /\ current_generation' = n
             /\ gen_calls' = gen_calls + 1
             /\ judge_calls' = IF gen.raised \/ GenerationFailed(gen) THEN judge_calls
                               ELSE judge_calls + 1
             /\ last_gen' = [called |-> TRUE, handler |-> model_info.handler,
                             model_name |-> model_info.model_id, temperature |-> 7,
                             trait_name |-> system_prompt_generate.trait_name,
                             trait_score_num |-> system_prompt_generate.trait_score_num,
                             definition |-> "",
                             low |-> system_prompt_generate.low,
                             high |-> system_prompt_generate.high,
                             question |-> user_prompt_generate.question,
                             generated_text |-> Txt(<< >>),
                             env |-> genEnv, result |-> gen]
             /\ IF gen.raised
                THEN /\ last_judge' = NoCall
                     /\ last_parse' = NoParse
                     /\ Crash
                ELSE IF GenerationFailed(gen)
                THEN /\ last_judge' = NoCall
                     /\ last_parse' = NoParse
                     /\ Skip(n)
                ELSE /\ last_judge' = judge_call
                     /\ IF judge.raised
                        THEN /\ last_parse' = NoParse
                             /\ Crash
                        ELSE IF judge.status = "fail"
                        THEN /\ last_parse' = NoParse
                             /\ Skip(n)
                        ELSE /\ last_parse' = [done |-> TRUE, raised |-> parsed.raised,
                                               judge_result |-> parsed.judge_result]
                             /\ IF parsed.raised
                                THEN Crash
                                ELSE /\ results_list' = Append(results_list,
                                          Row(model_key, model_info, trait_name,
                                              trait_score_num, question, generated_text,
                                              parsed.judge_result))
                                     /\ UNCHANGED failed_iterations
                                     /\ Advance
  /\ UNCHANGED <<load_i, hf_handlers, failQ, judge_text>>
  /\ UNCHANGED qvars
  /\ UNCHANGED pvars

(***************************************************************************)
(* run_questionnaire_experiment: one pass of the innermost loop body.      *)
(***************************************************************************)
\* variant: for level in ['low', 'high']
Levels_LowFirst == <<"low", "high">>

\* for level in ['high', 'low']
Levels == <<"high", "low">>

\* the answers of the constant backends
ConstAnswers ==
  { Txt(<<PROSE(BFI44_SCORES_DICT[5].text)>>), Txt(<<PROSE("I am not sure")>>) }

Backends ==
  {StubBackend} \cup
  { [kind |-> "constant", answer |-> a, status |-> st] :
      a \in ConstAnswers, st \in {"ok", "fail"} }

\* the calls of a run the backend may answer at the n-th call
BackendEnvs(handler, n) ==
  IF q_backend.kind = "constant"
  THEN { IF q_backend.status = "ok" THEN DefaultEnv(q_backend.answer)
         ELSE FailingEnv(q_backend.answer) }
  ELSE IF handler = "groq" THEN GroqEnvs(StubAnswer(n)) ELSE HfEnvs(StubAnswer(n))

\* variant: the list is one kept between calls of the function
questionnaire_results_list_Kept == questionnaire_results_list

\* questionnaire_results_list = []
questionnaire_results_list_New == << >>

\* total_q_generations = len(models_to_test) * len(bfi44_questions) * 2
total_q_generations == Len(MODELS_TO_TEST) * Len(BFI44_QUESTIONS) * 2

\* the backend calls of a whole run
total_q_calls ==
  LET RECURSIVE Items(_)
      Items(i) == IF i = 0 THEN 0
                  ELSE Len(BFI44_QUESTIONS[i].questions) + Items(i - 1)
  IN Len(MODELS_TO_TEST) * 2 * Items(Len(BFI44_QUESTIONS))

\* variant: the row records the prompted level as the Q_type
QRow_LevelAsType(model_key, trait_name, level, question_set, answer) ==
  [model_key |-> model_key, trait |-> trait_name, prompted_level |-> level,
   Q_type |-> level, Answer |-> answer]

QRow(model_key, trait_name, level, question_set, answer) ==
  [model_key |-> model_key, trait |-> trait_name, prompted_level |-> level,
   Q_type |-> question_set.q_type, Answer |-> answer]

\* the nested for loops move on: item, then level, then trait, then model
QAdvance ==
  IF question_set_i < Len(BFI44_QUESTIONS[q_trait_i].questions)
  THEN /\ question_set_i' = question_set_i + 1
       /\ UNCHANGED <<pc, q_model_i, q_trait_i, level_i>>
  ELSE IF level_i < Len(Levels)
  THEN /\ question_set_i' = 1
       /\ level_i' = level_i + 1
       /\ UNCHANGED <<pc, q_model_i, q_trait_i>>
  ELSE IF q_trait_i < Len(BFI44_QUESTIONS)
  THEN /\ question_set_i' = 1
       /\ level_i' = 1
       /\ q_trait_i' = q_trait_i + 1
       /\ UNCHANGED <<pc, q_model_i>>
  ELSE IF q_model_i < Len(MODELS_TO_TEST)
  THEN /\ question_set_i' = 1
       /\ level_i' = 1
       /\ q_trait_i' = 1
       /\ q_model_i' = q_model_i + 1
       /\ UNCHANGED pc
  ELSE /\ pc' = "questionnaire_done"
       /\ UNCHANGED <<q_model_i, q_trait_i, level_i, question_set_i>>

\* the latest questionnaire call misbehaved
LastQCallDeviated == last_q.called /\ ~IsDefaultEnv(last_q.env)

QuestionnaireIteration ==
  /\ pc = "questionnaire"
  /\ LET model_info     == MODELS_TO_TEST[q_model_i]
         model_key      == model_info.model_key
         trait_key_long == BFI44_QUESTIONS[q_trait_i].key
         questions      == BFI44_QUESTIONS[q_trait_i].questions
         trait_info     == TRAITS_DEFINITIONS.generation[trait_key_short(trait_key_long)]
         trait_name     == trait_info.name
         level          == Levels[level_i]
         question_set   == questions[question_set_i]
         n              == q_calls + 1
     IN \E env \in BackendEnvs(model_info.handler, n) :
          LET trait_prompt ==
                [level |-> level, trait_name |-> trait_name, text |-> trait_info[level]]
              system_prompt ==
                [trait_prompt |-> trait_prompt,
                 options |-> [i \in 1..Len(BFI44_SCORES_DICT) |-> BFI44_SCORES_DICT[i].text]]
              user_prompt == [q_statement |-> question_set.q_statement]
              r == IF model_info.handler = "groq"
                   THEN generate_response_groq(model_info.model_id, system_prompt,
                                               user_prompt, 7, env)
                   ELSE hf_generate_response(HandlerOf(model_key), system_prompt,
                                             user_prompt, 7, env)
              answer == r.text
              status == r.status
              cost   == IF q_backend.kind = "constant" \/ IsDefaultEnv(env) THEN 0 ELSE 1
          IN /\ deviations + cost <= DeviationBudget
             /\ cost = 1 => (deviations = 0 \/ LastQCallDeviated
                              \/ (~last_q.called /\ LastCallDeviated))
             /\ deviations' = deviations + cost
             /\ current_q_generation' =
                  IF question_set_i = 1 THEN current_q_generation + 1
                  ELSE current_q_generation
             /\ q_calls' = n
             /\ last_q' = [called |-> TRUE, handler |-> model_info.handler,
                           model_name |-> model_info.model_id, temperature |-> 7,
                           trait_key_long |-> trait_key_long,
                           trait_name |-> system_prompt.trait_prompt.trait_name,
                           level |-> system_prompt.trait_prompt.level,
                           level_text |-> system_prompt.trait_prompt.text,
                           options |-> system_prompt.options,
                           q_statement |-> user_prompt.q_statement,
                           env |-> env, result |-> r]
             /\ IF r.raised
                THEN /\ pc' = "crashed"
                     /\ UNCHANGED <<q_model_i, q_trait_i, level_i, question_set_i,
                                    questionnaire_results_list>>
                ELSE /\ questionnaire_results_list' =
                          IF status = "ok"
                          THEN Append(questionnaire_results_list,
                                      QRow(model_key, trait_name, level, question_set, answer))
                          ELSE questionnaire_results_list
                     /\ QAdvance
  /\ UNCHANGED pvars
  /\ UNCHANGED << load_i, hf_handlers, model_i, trait_i, trait_score_num,
                  question_i, current_generation, results_list, last_gen,
                  last_judge, last_parse, failed_iterations, failQ, judge_text,
                  gen_calls, judge_calls, q_backend, run, first_table >>

\* main() calls run_questionnaire_experiment: lines 112 to 116, and the for
\* loops at their first elements
EnterQuestionnaire ==
  /\ pc = "text_generation_done"
  /\ pc' = "questionnaire"
  /\ questionnaire_results_list' = questionnaire_results_list_New
  /\ current_q_generation' = 0
  /\ q_calls' = 0
  /\ q_model_i' = 1
  /\ q_trait_i' = 1
  /\ level_i' = 1
  /\ question_set_i' = 1
  /\ UNCHANGED pvars
  /\ UNCHANGED << load_i, hf_handlers, model_i, trait_i, trait_score_num,
                  question_i, current_generation, results_list, last_gen,
                  last_judge, last_parse, failed_iterations, failQ, deviations,
                  judge_text, gen_calls, judge_calls, last_q, q_backend, run,
                  first_table >>

Next ==
  PreloadModel \/ GenerationIteration \/ EnterQuestionnaire \/ QuestionnaireIteration

Spec == Init /\ [][Next]_vars

(***************************************************************************)
(* The judge-parsing step on its own, on every short text and every        *)
(* sample: the text is drawn at the start and parsed once.                 *)
(***************************************************************************)
ParserInit ==
  /\ pc = "parser"
  /\ judge_text \in ParserInputs(MaxLen)
  /\ load_i = 1
  /\ hf_handlers = {}
  /\ model_i = 1
  /\ trait_i = 1
  /\ trait_score_num = 1
  /\ question_i = 1
  /\ current_generation = 0
  /\ results_list = << >>
  /\ last_gen = NoCall
  /\ last_judge = NoCall
  /\ last_parse = NoParse
  /\ failed_iterations = {}
  /\ failQ = 0
  /\ deviations = 0
  /\ gen_calls = 0
  /\ judge_calls = 0
  /\ QuestionnaireIdle
  /\ PlotIdle

ParseJudgeText ==
  /\ pc = "parser"
  /\ ~last_parse.done
  /\ LET parsed == judge_parse(judge_text)
     IN last_parse' = [done |-> TRUE, raised |-> parsed.raised,
                       judge_result |-> parsed.judge_result]
  /\ pc' = IF last_parse'.raised THEN "crashed" ELSE "parser"
  /\ UNCHANGED << load_i, hf_handlers, model_i, trait_i, trait_score_num,
                  question_i, current_generation, results_list, last_gen,
                  last_judge, failed_iterations, failQ, deviations, judge_text,
                  gen_calls, judge_calls >>
  /\ UNCHANGED qvars
  /\ UNCHANGED pvars

ParserNext == ParseJudgeText

ParserSpec == ParserInit /\ [][ParserNext]_vars

(***************************************************************************)
(* run_questionnaire_experiment on its own, called with the local models   *)
(* loaded, with the stub or a constant backend, and called twice.          *)
(***************************************************************************)
QuestionnaireInit ==
  /\ pc = "text_generation_done"
  /\ load_i = Len(MODELS_TO_TEST) + 1
  /\ hf_handlers =
       { HuggingFaceModelHandler(MODELS_TO_TEST[i].model_key,
                                 MODELS_TO_TEST[i].model_id, TRUE) :
           i \in { j \in 1..Len(MODELS_TO_TEST) : MODELS_TO_TEST[j].handler = "hf" } }
  /\ model_i = 1
  /\ trait_i = 1
  /\ trait_score_num = 1
  /\ question_i = 1
  /\ current_generation = 0
  /\ results_list = << >>
  /\ last_gen = NoCall
  /\ last_judge = NoCall
  /\ last_parse = NoParse
  /\ failed_iterations = {}
  /\ failQ = 0
  /\ deviations = 0
  /\ judge_text = Txt(<< >>)
  /\ gen_calls = 0
  /\ judge_calls = 0
  /\ q_model_i = 1
  /\ q_trait_i = 1
  /\ level_i = 1
  /\ question_set_i = 1
  /\ current_q_generation = 0
  /\ questionnaire_results_list = << >>
  /\ q_calls = 0
  /\ last_q = NoQCall
  /\ q_backend \in Backends
  /\ run = 1
  /\ first_table = << >>
  /\ PlotIdle

\* the function has returned its table; it is about to be called a second
\* time with the same arguments
RunQuestionnaireAgain ==
  /\ pc = "questionnaire_done"
  /\ run = 1
  /\ run' = 2
  /\ first_table' = questionnaire_results_list
  /\ pc' = "text_generation_done"
  /\ UNCHANGED pvars
  /\ UNCHANGED << load_i, hf_handlers, model_i, trait_i, trait_score_num,
                  question_i, current_generation, results_list, last_gen,
                  last_judge, last_parse, failed_iterations, failQ, deviations,
                  judge_text, gen_calls, judge_calls, q_model_i, q_trait_i,
                  level_i, question_set_i, current_q_generation,
                  questionnaire_results_list, q_calls, last_q, q_backend >>

QuestionnaireNext ==
  EnterQuestionnaire \/ QuestionnaireIteration \/ RunQuestionnaireAgain

QuestionnaireSpec == QuestionnaireInit /\ [][QuestionnaireNext]_vars

(***************************************************************************)
(* plot_questionnaire_histograms on one row: match_score applied to a cell *)
(* of the Answer column, with the vocabulary main() passes.                *)
(***************************************************************************)
MatchInit ==
  /\ pc = "plotting"
  /\ Answer \in AnswerInputs(MaxPad)
  /\ Scores = 0
  /\ load_i = 1
  /\ hf_handlers = {}
  /\ model_i = 1
  /\ trait_i = 1
  /\ trait_score_num = 1
  /\ question_i = 1
  /\ current_generation = 0
  /\ results_list = << >>
  /\ last_gen = NoCall
  /\ last_judge = NoCall
  /\ last_parse = NoParse
  /\ failed_iterations = {}
  /\ failQ = 0
  /\ deviations = 0
  /\ judge_text = Txt(<< >>)
  /\ gen_calls = 0
  /\ judge_calls = 0
  /\ QuestionnaireIdle

\* df_plot['Scores'] = df_plot['Answer'].apply(lambda x: match_score(x, scores_dict))
ApplyMatchScore ==
  /\ pc = "plotting"
  /\ Scores = 0
  /\ Scores' = match_score(Answer, BFI44_SCORES_DICT)
  /\ UNCHANGED << pc, load_i, hf_handlers, model_i, trait_i, trait_score_num,
                  question_i, current_generation, results_list, last_gen,
                  last_judge, last_parse, failed_iterations, failQ, deviations,
                  judge_text, gen_calls, judge_calls, Answer >>
  /\ UNCHANGED qvars

MatchNext == ApplyMatchScore

MatchSpec == MatchInit /\ [][MatchNext]_vars

(***************************************************************************)
(* Properties.                                                             *)
(***************************************************************************)
InSweep == pc \in {"text_generation", "text_generation_done"}
LastRow == results_list[Len(results_list)]
\* the latest iteration appended a row
LastAppended == last_parse.done /\ ~last_parse.raised /\ Len(results_list) > 0

\* C1: an iteration of the generation sweep appends exactly one row when its
\* generation call and its judge call both returned 'ok' (whether or not the
\* judge text parsed), and leaves the table as it is when either failed.
C1_RowIffBothOk ==
  [][ (pc = "text_generation" /\ current_generation' = current_generation + 1) =>
        IF last_gen'.result.status = "ok" /\ last_judge'.result.status = "ok"
        THEN /\ Len(results_list') = Len(results_list) + 1
             /\ SubSeq(results_list', 1, Len(results_list)) = results_list
        ELSE results_list' = results_list ]_vars

C1_Witness ==
  /\ InSweep
  /\ failed_iterations # {}
  /\ LastAppended
  /\ last_gen.result.status = "ok" /\ last_judge.result.status = "ok"
  /\ last_parse.judge_result = SentinelVerdict
  /\ LastRow.judge_reasoning = StrV("JSON PARSE ERROR")

\* C2: the table never has more than |models| x 5 x 5 x |questions| rows; it
\* has one row per iteration done so far less the failed ones, and at the end
\* of the sweep the total number of iterations less the failed ones.
C2_RowCount ==
  InSweep =>
    /\ total_generations = Len(MODELS_TO_TEST) * 5 * 5 * Len(QUESTIONS)
    /\ Len(results_list) <= total_generations
    /\ Len(results_list) = current_generation - Cardinality(failed_iterations)
    /\ pc = "text_generation_done" =>
         /\ current_generation = total_generations
         /\ Len(results_list) = total_generations - Cardinality(failed_iterations)

C2_Witness ==
  /\ pc = "text_generation_done"
  /\ Cardinality(failed_iterations) = 1
  /\ Len(results_list) = total_generations - 1

\* the rows of the table at one (model, trait, intensity, question) coordinate
RowsAt(m, t, s, q) ==
  { i \in 1..Len(results_list) :
      /\ results_list[i].model_key = MODELS_TO_TEST[m].model_key
      /\ results_list[i].prompted_trait = TRAITS_DEFINITIONS.generation[TraitCodes[t]].name
      /\ results_list[i].prompted_score = s
      /\ results_list[i].question = QUESTIONS[q] }

OtherCoordinatesPresent ==
  \A m \in 1..Len(MODELS_TO_TEST), t \in 1..Len(TraitCodes), s \in 1..5,
     q \in 1..Len(QUESTIONS) :
       Cardinality(RowsAt(m, t, s, q)) = IF q = failQ THEN 0 ELSE 1

\* C3 as stated: with a backend that always fails for one question, the table
\* has exactly one row fewer than that of the failure-free run.
C3_OneRowFewer ==
  (pc = "text_generation_done" /\ failQ # 0) =>
    /\ Len(results_list) = total_generations - 1
    /\ OtherCoordinatesPresent

\* C3 amended: with a backend that always fails for one question, the table has
\* one row fewer for every (model, trait, intensity) that asks the question, that
\* is |models| x 5 x 5 rows fewer than the failure-free run, which has a row for
\* every iteration; no row holds the failing question and every other
\* coordinate has its row.
C3_SkipOnFail ==
  pc = "text_generation_done" =>
    /\ (failQ = 0 /\ failed_iterations = {}) => Len(results_list) = total_generations
    /\ failQ # 0 =>
         /\ Len(results_list) = total_generations - Len(MODELS_TO_TEST) * 5 * 5
         /\ \A i \in 1..Len(results_list) : results_list[i].question # QUESTIONS[failQ]
         /\ OtherCoordinatesPresent

C3_Witness ==
  /\ pc = "text_generation_done"
  /\ failQ # 0
  /\ Len(results_list) = total_generations - Len(MODELS_TO_TEST) * 5 * 5
  /\ Len(results_list) > 0

JudgeScores == { IntV(k) : k \in -2..2 }

\* C4 as stated: every row has prompted_score in 1..5 and judge_score null or
\* in -2..2.
C4_ScoreInRange ==
  \A i \in 1..Len(results_list) :
    /\ results_list[i].prompted_score \in 1..5
    /\ results_list[i].judge_score \in {None} \cup JudgeScores

\* the value v follows a "score" key in the text
ScoreGivenBy(text, v) ==
  /\ ~text.isNone
  /\ \E j \in 1..(Len(text.toks) - 1) :
       /\ text.toks[j] = KEY("score")
       /\ \/ text.toks[j + 1] = VAL(v)
          \/ text.toks[j + 1] = LB /\ v = ObjV

\* C4 amended: every row has prompted_score in 1..5; its judge_score is null or
\* is the value the judge's text gives under "score", taken over as it is: in
\* -2..2 when the judge kept to the list, and otherwise whatever was given (the
\* string "Nondistinguishable", a number out of range).
C4_ScoreAsGiven ==
  /\ \A i \in 1..Len(results_list) :
       /\ results_list[i].prompted_score \in 1..5
       /\ results_list[i].judge_score.kind \in {"none", "int", "str", "obj"}
  /\ (InSweep /\ LastAppended) =>
       /\ LastRow.prompted_score = last_gen.trait_score_num
       /\ \/ LastRow.judge_score = None
          \/ ScoreGivenBy(last_judge.result.text, LastRow.judge_score)

C4_Witness ==
  /\ InSweep
  /\ LastAppended
  /\ LastRow.judge_score = StrV("Nondistinguishable")
  /\ \E i \in 1..Len(results_list) : results_list[i].judge_score = IntV(-2)
  /\ \E i \in 1..Len(results_list) : results_list[i].judge_score = None

DecisionTypes ==
  { StrV("Explicit signs"), StrV("Implicit signs"), StrV("Intuition"),
    StrV("Nondistinguishable") }

\* C5: every row has judge_decision_type one of Explicit signs, Implicit signs,
\* Intuition, Nondistinguishable, or null.
C5_DecisionTypeDomain ==
  \A i \in 1..Len(results_list) :
    results_list[i].judge_decision_type \in {None} \cup DecisionTypes

DefinedKinds == {"none", "int", "str", "obj"}

\* C6: on any judge text the judge-parsing step raises nothing and yields a
\* verdict whose score, clues, reasoning and decision type are each a value or
\* null.
C6_ParserTotality ==
  (pc \in {"parser", "crashed"} /\ last_parse.done) =>
    /\ ~last_parse.raised
    /\ pc # "crashed"
    /\ Verdict(last_parse.judge_result).judge_score.kind \in DefinedKinds
    /\ Verdict(last_parse.judge_result).judge_clues.kind \in DefinedKinds
    /\ Verdict(last_parse.judge_result).judge_reasoning.kind \in DefinedKinds
    /\ Verdict(last_parse.judge_result).judge_decision_type.kind \in DefinedKinds

C6_Witness ==
  /\ pc = "parser"
  /\ last_parse.done
  /\ judge_text = Txt(<<LB, PROSE("x"), RB>>)
  /\ Verdict(last_parse.judge_result).judge_reasoning = StrV("JSON PARSE ERROR")

\* the text holds no "{" with a "}" after it
NoBraceSpan(text) ==
  \/ text.isNone
  \/ ~ \E i, j \in 1..Len(text.toks) :
         i < j /\ text.toks[i].t = "LB" /\ text.toks[j].t = "RB"

BraceSpan(text) == SubSeq(text.toks, FirstLB(text.toks), LastRB(text.toks))

Unparseable(text) ==
  \/ NoBraceSpan(text)
  \/ json_loads(BraceSpan(text)).exc # "none"

\* C7: when the judge text holds no {...} span, or the span is not valid JSON,
\* the verdict is score null, clues null, decision type null and reasoning
\* "JSON PARSE ERROR", and the row of the iteration is appended with these and
\* with the prompted fields and the generated text.
C7_ParserSentinel ==
  (/\ pc \in {"text_generation", "text_generation_done", "crashed"}
   /\ last_judge.called /\ last_judge.result.status = "ok"
   /\ Unparseable(last_judge.result.text)) =>
    /\ LastAppended
    /\ Len(results_list) = current_generation - Cardinality(failed_iterations)
    /\ LastRow.judge_score = None
    /\ LastRow.judge_clues = None
    /\ LastRow.judge_decision_type = None
    /\ LastRow.judge_reasoning = StrV("JSON PARSE ERROR")
    /\ LastRow.model_id = last_gen.model_name
    /\ LastRow.prompted_trait = last_gen.trait_name
    /\ LastRow.prompted_score = last_gen.trait_score_num
    /\ LastRow.question = last_gen.question
    /\ LastRow.generated_text = last_gen.result.text

C7_Witness ==
  /\ InSweep
  /\ LastAppended
  /\ last_judge.result.text = Txt(<<LB, PROSE("not"), PROSE("json"), RB>>)
  /\ LastRow.judge_reasoning = StrV("JSON PARSE ERROR")
  /\ LastRow.generated_text = StubAnswer(current_generation)

\* the text is prose, one object of scalar members, prose
ProseObjectProse(text) ==
  /\ ~text.isNone
  /\ LET toks == text.toks
         f == FirstLB(toks)
         l == LastRB(toks)
         m == l - f - 1
     IN /\ f > 0 /\ l > f
        /\ \A i \in 1..Len(toks) : (i < f \/ i > l) => toks[i].t = "PROSE"
        /\ m = 0 \/ m % 3 = 2
        /\ \A j \in 1..m :
             toks[f + j].t = IF j % 3 = 1 THEN "KEY"
                             ELSE IF j % 3 = 2 THEN "VAL" ELSE "CM"

\* the value the object of the text gives the key k (the last, when repeated)
ValueOfKey(text, k) ==
  LET toks == text.toks
      at == { j \in 1..Len(toks) : toks[j] = KEY(k) }
  IN IF at = {} THEN None
     ELSE toks[(CHOOSE j \in at : \A h \in at : h <= j) + 1].val

\* C8: on a text that holds one valid JSON object between prose, the verdict's
\* score, clues, reasoning and decision type are the values of the object's
\* keys of those names, and null for a key the object does not have.
C8_ParserCorrectness ==
  (pc \in {"parser", "crashed"} /\ last_parse.done /\ ProseObjectProse(judge_text)) =>
    /\ ~last_parse.raised
    /\ Verdict(last_parse.judge_result).judge_score = ValueOfKey(judge_text, "score")
    /\ Verdict(last_parse.judge_result).judge_clues = ValueOfKey(judge_text, "clues")
    /\ Verdict(last_parse.judge_result).judge_reasoning = ValueOfKey(judge_text, "reasoning")
    /\ Verdict(last_parse.judge_result).judge_decision_type
         = ValueOfKey(judge_text, "decision type")

C8_Witness ==
  /\ pc = "parser"
  /\ last_parse.done
  /\ judge_text = JudgeSamples[8]
  /\ Verdict(last_parse.judge_result).judge_score = IntV(0)
  /\ Verdict(last_parse.judge_result).judge_reasoning = None

\* the hosted-API calls of the latest iteration
GroqCalls == { c \in {last_gen, last_judge} : c.called /\ c.handler = "groq" }

\* C9: generate_response_groq raises nothing: whatever raises inside, it returns
\* a text and a status 'ok' or 'fail', and ('MODEL_FAIL', 'fail') when the
\* client cannot be constructed or all 3 attempts raise.
C9_GroqNeverRaises ==
  /\ pc # "crashed"
  /\ \A c \in GroqCalls :
       /\ ~c.result.raised
       /\ c.result.status \in {"ok", "fail"}
       /\ (~c.env.clientOk \/ \A a \in 1..3 : c.env.raises[a]) =>
            (c.result.text = MODEL_FAIL /\ c.result.status = "fail")

C9_Witness ==
  /\ last_gen.called /\ last_gen.handler = "groq"
  /\ ~last_gen.env.clientOk
  /\ last_gen.result.text = MODEL_FAIL /\ last_gen.result.status = "fail"

\* the attempts that raise before the first one that does not
LeadingRaises(r) ==
  IF ~r[1] THEN 0 ELSE IF ~r[2] THEN 1 ELSE IF ~r[3] THEN 2 ELSE 3

\* C10: generate_response_groq makes at most 3 attempts and stops at the first
\* that succeeds; it waits 1, 2, 4 after the 1st, 2nd, 3rd failed attempt and
\* at no other time; failing twice and then succeeding gives 'ok' at the 3rd
\* attempt after waits of 1 and 2.
C10_BackoffSchedule ==
  \A c \in GroqCalls :
    c.env.clientOk =>
      LET k == LeadingRaises(c.env.raises)
      IN /\ c.result.attempts <= 3
         /\ c.result.attempts = IF k = 3 THEN 3 ELSE k + 1
         /\ c.result.status = IF k = 3 THEN "fail" ELSE "ok"
         /\ c.result.waits = SubSeq(<<1, 2, 4>>, 1, k)
         /\ c.env.raises = <<TRUE, TRUE, FALSE>> =>
              /\ c.result.status = "ok"
              /\ c.result.attempts = 3
              /\ c.result.waits = <<1, 2>>

C10_Witness ==
  /\ last_judge.called
  /\ last_judge.env.clientOk
  /\ last_judge.env.raises = <<TRUE, TRUE, FALSE>>
  /\ last_judge.result.status = "ok"
  /\ last_judge.result.attempts = 3
  /\ last_judge.result.waits = <<1, 2>>

\* a handler object whose model or tokenizer is not set
Unloaded(h) == [h EXCEPT !.loaded = FALSE]

\* C11: HuggingFaceModelHandler.generate_response makes one generation attempt
\* per call: when the attempt raises it returns ('GENERATION_FAIL', 'fail') at
\* once, with no retry and no wait; when the model or tokenizer is not loaded
\* it returns ('MODEL_NOT_LOADED', 'fail') without an attempt; it raises
\* nothing to the sweep.
C11_HfSingleAttempt ==
  /\ (last_gen.called /\ last_gen.handler = "hf") =>
       /\ pc # "crashed"
       /\ ~last_gen.result.raised
       /\ last_gen.result.attempts = 1
       /\ last_gen.result.waits = << >>
       /\ IF last_gen.env.raises[1]
          THEN last_gen.result.status = "fail" /\ last_gen.result.text = GENERATION_FAIL
          ELSE last_gen.result.status = "ok" /\ last_gen.result.text = last_gen.env.response
  /\ \A h \in hf_handlers, env \in HfEnvs(StubAnswer(1)) :
       hf_generate_response(Unloaded(h), "", "", 7, env) =
         [text |-> MODEL_NOT_LOADED, status |-> "fail", attempts |-> 0,
          waits |-> << >>, raised |-> FALSE]

C11_Witness ==
  /\ pc = "text_generation"
  /\ last_gen.called /\ last_gen.handler = "hf"
  /\ failQ = 0
  /\ last_gen.env.raises[1]
  /\ last_gen.result.status = "fail"
  /\ last_gen.result.attempts = 1
  /\ last_gen.result.text = GENERATION_FAIL

\* every configured local model has a loaded handler
AllLocalModelsLoaded ==
  \A i \in 1..Len(MODELS_TO_TEST) :
    MODELS_TO_TEST[i].handler = "hf" =>
      \E h \in hf_handlers : h.model_key = MODELS_TO_TEST[i].model_key /\ h.loaded

\* C12: when a configured local model fails to load, main() returns before
\* either sweep starts: no generation, judge or questionnaire call has been
\* made and both tables are empty; a sweep is only ever entered with every
\* local model loaded.
C12_FailFastOnLoad ==
  /\ pc = "aborted" =>
       /\ load_i <= Len(MODELS_TO_TEST)
       /\ MODELS_TO_TEST[load_i].handler = "hf"
       /\ ~AllLocalModelsLoaded
       /\ current_generation = 0 /\ ~last_gen.called /\ ~last_judge.called
       /\ results_list = << >>
       /\ q_calls = 0 /\ ~last_q.called
       /\ questionnaire_results_list = << >>
  /\ pc \in {"text_generation", "text_generation_done", "questionnaire",
             "questionnaire_done"} => AllLocalModelsLoaded
  /\ (last_gen.called \/ last_q.called \/ results_list # << >>
        \/ questionnaire_results_list # << >>) => AllLocalModelsLoaded

C12_Witness ==
  /\ pc = "aborted"
  /\ MODELS_TO_TEST[load_i].handler = "hf"
  /\ hf_handlers = {}
  /\ results_list = << >>
  /\ questionnaire_results_list = << >>

\* the place of a (model, trait, intensity, question) combination in the sweep
Rank(m, t, s, q) ==
  (((m - 1) * Len(TraitCodes) + (t - 1)) * 5 + (s - 1)) * Len(QUESTIONS) + q

RowCoordinates ==
  { << results_list[i].model_key, results_list[i].prompted_trait,
       results_list[i].prompted_score, results_list[i].question >> :
      i \in 1..Len(results_list) }

\* C13: in every state of the generation sweep no two rows have the same
\* (model key, trait, intensity, question); the sweep has invoked the
\* generation backend once for each combination it has passed and for no
\* other, and the judge backend at most once for each: the k-th backend call
\* is for the k-th combination, and the sweep stands at the next one.
C13_OncePerCombination ==
  InSweep =>
    /\ Cardinality(RowCoordinates) = Len(results_list)
    /\ gen_calls = current_generation
    /\ judge_calls <= gen_calls
    /\ Len(results_list) <= judge_calls
    /\ pc = "text_generation" =>
         Rank(model_i, trait_i, trait_score_num, question_i) = gen_calls + 1
    /\ pc = "text_generation_done" => gen_calls = total_generations
    /\ last_gen.called =>
         \E m \in 1..Len(MODELS_TO_TEST), t \in 1..Len(TraitCodes), s \in TraitScores,
            q \in 1..Len(QUESTIONS) :
              /\ Rank(m, t, s, q) = gen_calls
              /\ last_gen.model_name = MODELS_TO_TEST[m].model_id
              /\ last_gen.trait_name = TRAITS_DEFINITIONS.generation[TraitCodes[t]].name
              /\ last_gen.trait_score_num = s
              /\ last_gen.question = QUESTIONS[q]
              /\ last_judge.called => last_judge.question = QUESTIONS[q]

C13_Witness ==
  /\ pc = "text_generation_done"
  /\ gen_calls = total_generations
  /\ judge_calls < gen_calls
  /\ Len(results_list) < judge_calls
  /\ Cardinality(RowCoordinates) = Len(results_list)

\* the places of a row's coordinates in the configured lists
ModelIndex(key) ==
  CHOOSE i \in 1..Len(MODELS_TO_TEST) : MODELS_TO_TEST[i].model_key = key
TraitIndex(name) ==
  CHOOSE i \in 1..Len(TraitCodes) :
    TRAITS_DEFINITIONS.generation[TraitCodes[i]].name = name
QuestionIndex(question) ==
  CHOOSE i \in 1..Len(QUESTIONS) : QUESTIONS[i] = question
LevelIndex(level) == IF level = "high" THEN 1 ELSE 2

GenRowRank(row) ==
  Rank(ModelIndex(row.model_key), TraitIndex(row.prompted_trait),
       row.prompted_score, QuestionIndex(row.question))

\* the place of a questionnaire row's (model, trait, level), and the item the
\* stub's answer number stands for within it
LevelRank(row) ==
  ((ModelIndex(row.model_key) - 1) * Len(TraitCodes) + (TraitIndex(row.trait) - 1)) * 2
    + LevelIndex(row.prompted_level)
ItemOf(row) == row.Answer.toks[1].val.num - (LevelRank(row) - 1) * NumItems
QRowRank(row) == (LevelRank(row) - 1) * NumItems + ItemOf(row)

\* the rows of the Generation table from the k-th on are in the sweep's order
GenerationOrderedFrom(k) ==
  \A i \in k..Len(results_list) - 1 :
    i >= 1 => GenRowRank(results_list[i]) < GenRowRank(results_list[i + 1])

\* the rows of the Questionnaire table from the k-th on are in the sweep's
\* order, each with the q_type of its item
QuestionnaireOrderedFrom(k) ==
  /\ \A i \in k..Len(questionnaire_results_list) :
       i >= 1 =>
         LET row == questionnaire_results_list[i]
         IN /\ ItemOf(row) \in 1..NumItems
            /\ row.Q_type =
                 BFI44_QUESTIONS[TraitIndex(row.trait)].questions[ItemOf(row)].q_type
  /\ \A i \in k..Len(questionnaire_results_list) - 1 :
       i >= 1 => QRowRank(questionnaire_results_list[i])
                   < QRowRank(questionnaire_results_list[i + 1])

GenerationTableOrdered == GenerationOrderedFrom(1)
QuestionnaireTableOrdered == QuestionnaireOrderedFrom(1)

\* a step leaves the rows a table has where they are
RowsKept(old, new) ==
  Len(new) >= Len(old) /\ SubSeq(new, 1, Len(old)) = old

\* C14: the rows of the Generation table stand in the order (model, trait,
\* intensity 1..5, question) and those of the Questionnaire table in the order
\* (model, trait, level with 'high' before 'low', item), whichever iterations
\* failed; no step of the run moves or removes a row of either table.  The
\* whole tables are compared when a sweep has ended, the latest two rows in
\* every state.
C14_IterationOrder ==
  /\ [](/\ GenerationOrderedFrom(Len(results_list) - 1)
        /\ QuestionnaireOrderedFrom(Len(questionnaire_results_list) - 1)
        /\ pc = "text_generation_done" => GenerationTableOrdered
        /\ pc = "questionnaire_done" =>
             GenerationTableOrdered /\ QuestionnaireTableOrdered)
  /\ [][ /\ RowsKept(results_list, results_list')
         /\ RowsKept(questionnaire_results_list, questionnaire_results_list') ]_vars

C14_Witness ==
  /\ pc = "questionnaire_done"
  /\ Len(results_list) = total_generations - 1
  /\ Len(questionnaire_results_list) = total_q_calls - 1
  /\ GenerationTableOrdered
  /\ QuestionnaireTableOrdered
  /\ \E i \in 1..Len(questionnaire_results_list) - 1 :
       /\ questionnaire_results_list[i].prompted_level = "high"
       /\ questionnaire_results_list[i + 1].prompted_level = "low"

\* the trait a long-form key of BFI44_QUESTIONS names
TraitNamed(trait_key_long) ==
  CASE trait_key_long = "openness" -> "Openness"
    [] trait_key_long = "conscientiousness" -> "Conscientiousness"
    [] trait_key_long = "extraversion" -> "Extraversion"
    [] trait_key_long = "agreeableness" -> "Agreeableness"
    [] trait_key_long = "neuroticism" -> "Neuroticism"

\* the calls and the row of the latest generation iteration are all of one code
GenerationOfOneTrait ==
  last_gen.called =>
    \E code \in { TraitCodes[i] : i \in 1..Len(TraitCodes) } :
      LET g == TRAITS_DEFINITIONS.generation[code]
          c == TRAITS_DEFINITIONS.classification[code]
      IN /\ last_gen.trait_name = g.name
         /\ last_gen.low = g.low /\ last_gen.high = g.high
         /\ last_judge.called =>
              /\ last_judge.trait_name = c.name
              /\ last_judge.definition = c.definition
              /\ last_judge.low = c.low /\ last_judge.high = c.high
         /\ LastAppended => LastRow.prompted_trait = g.name

\* the call and the row of the latest questionnaire iteration are of the trait
\* the long-form key names
QuestionnaireOfOneTrait ==
  last_q.called =>
    \E code \in { TraitCodes[i] : i \in 1..Len(TraitCodes) } :
      LET g == TRAITS_DEFINITIONS.generation[code]
      IN /\ g.name = TraitNamed(last_q.trait_key_long)
         /\ trait_key_short(last_q.trait_key_long) = code
         /\ last_q.trait_name = g.name
         /\ last_q.level_text = g[last_q.level]
         /\ last_q.result.status = "ok" =>
              questionnaire_results_list[Len(questionnaire_results_list)].trait = g.name

\* C15: in an iteration of the generation sweep the trait named in the
\* generation instruction, the trait named in the judge instruction, the
\* definition, low and high texts of the judge instruction and the row's
\* prompted_trait all belong to one trait code; in the questionnaire sweep the
\* long-form key of a trait is mapped to the code of that same trait.
C15_NoCrossTraitLeakage ==
  /\ GenerationOfOneTrait
  /\ QuestionnaireOfOneTrait
  /\ \A i \in 1..Len(BFI44_QUESTIONS) :
       TRAITS_DEFINITIONS.generation[trait_key_short(BFI44_QUESTIONS[i].key)].name
         = TraitNamed(BFI44_QUESTIONS[i].key)

C15_Witness ==
  /\ pc = "questionnaire"
  /\ last_judge.called /\ LastAppended
  /\ last_judge.definition = TRAITS_DEFINITIONS.classification["N"].definition
  /\ LastRow.prompted_trait = "Neuroticism"
  /\ last_q.called /\ last_q.result.status = "ok"
  /\ last_q.trait_key_long = "extraversion"
  /\ last_q.level = "low"
  /\ last_q.level_text = TRAITS_DEFINITIONS.generation["E"].low
  /\ questionnaire_results_list[Len(questionnaire_results_list)].trait = "Extraversion"

\* the place of a (model, trait, level, item) combination in the sweep
QPos(m, t, l, i) ==
  (((m - 1) * Len(BFI44_QUESTIONS) + (t - 1)) * 2 + (l - 1)) * NumItems + i

LastQRow == questionnaire_results_list[Len(questionnaire_results_list)]

\* C16: every pass of the questionnaire loop body calls the backend once, for
\* the combination the loops stand at; it appends one row, holding the raw
\* answer and the q_type of the item, exactly when the call returned 'ok', and
\* leaves the table as it is on 'fail'; either way the sweep goes on to the
\* next combination, so that the k-th call of a run is for the k-th
\* combination and a finished run has called the backend once for each.
C16_QuestionnaireRowIffOk ==
  /\ [](/\ pc = "questionnaire" =>
             QPos(q_model_i, q_trait_i, level_i, question_set_i) = q_calls + 1
        /\ pc = "questionnaire_done" => q_calls = total_q_calls
        /\ pc # "crashed")
  /\ [][ pc = "questionnaire" =>
          LET item == BFI44_QUESTIONS[q_trait_i].questions[question_set_i]
          IN /\ q_calls' = q_calls + 1
             /\ last_q'.called
             /\ last_q'.model_name = MODELS_TO_TEST[q_model_i].model_id
             /\ last_q'.trait_key_long = BFI44_QUESTIONS[q_trait_i].key
             /\ last_q'.level = IF level_i = 1 THEN "high" ELSE "low"
             /\ last_q'.q_statement = item.q_statement
             /\ last_q'.result.attempts <= max_retries
             /\ IF last_q'.result.status = "ok"
                THEN questionnaire_results_list' =
                       Append(questionnaire_results_list,
                              [model_key |-> MODELS_TO_TEST[q_model_i].model_key,
                               trait |-> TraitNamed(BFI44_QUESTIONS[q_trait_i].key),
                               prompted_level |-> IF level_i = 1 THEN "high" ELSE "low",
                               Q_type |-> item.q_type,
                               Answer |-> last_q'.result.text])
                ELSE /\ last_q'.result.status = "fail"
                     /\ questionnaire_results_list' = questionnaire_results_list
             /\ pc' \in {"questionnaire", "questionnaire_done"} ]_vars

C16_Witness ==
  /\ pc = "questionnaire_done"
  /\ q_backend.kind = "stub"
  /\ q_calls = total_q_calls
  /\ Len(questionnaire_results_list) = total_q_calls - 2
  /\ LastQRow.Q_type = "inverted"
  /\ LastQRow.Answer = StubAnswer(total_q_calls)

\* C17: with a backend that gives the same answer and the same status at
\* every call, a second run of the questionnaire sweep builds the table of the
\* first run, row by row: while it runs its table is the beginning of the
\* first table, and when it ends the two tables are equal.
C17_QuestionnaireDeterminism ==
  (q_backend.kind = "constant" /\ run = 2
     /\ pc \in {"questionnaire", "questionnaire_done"}) =>
    /\ Len(questionnaire_results_list) <= Len(first_table)
    /\ questionnaire_results_list =
         SubSeq(first_table, 1, Len(questionnaire_results_list))
    /\ pc = "questionnaire_done" => questionnaire_results_list = first_table

C17_Witness ==
  /\ pc = "questionnaire_done"
  /\ run = 2
  /\ q_backend.kind = "constant" /\ q_backend.status = "ok"
  /\ Len(first_table) = total_q_calls
  /\ questionnaire_results_list = first_table
  /\ LastQRow.Answer = q_backend.answer

\* the latest generation iteration met a fault: a failed generation, a failed
\* judge call, or a judge text that did not parse
IterationFaulty(gen, judge, parse) ==
  \/ gen.result.status = "fail"
  \/ judge.called /\ judge.result.status = "fail"
  \/ parse.done /\ parse.judge_result = SentinelVerdict

\* C18: a failed generation, a failed judge call or an unparseable judge text
\* does not end the generation sweep, and a failed call does not end the
\* questionnaire sweep: the iteration after the fault is at the next
\* combination, and a sweep only ends when it has called the backend for
\* every combination.  The run stops early only in the pre-loading loop, at a
\* local model that did not load.
C18_FaultsDoNotHalt ==
  /\ [](/\ pc # "crashed"
        /\ pc = "aborted" =>
             ~AllLocalModelsLoaded /\ gen_calls = 0 /\ q_calls = 0
        /\ pc \in {"text_generation_done", "questionnaire", "questionnaire_done"} =>
             gen_calls = total_generations
        /\ pc = "questionnaire_done" => q_calls = total_q_calls)
  /\ [][ /\ (pc = "text_generation" /\ IterationFaulty(last_gen', last_judge', last_parse')) =>
              IF gen_calls' = total_generations
              THEN pc' = "text_generation_done"
              ELSE /\ pc' = "text_generation"
                   /\ Rank(model_i', trait_i', trait_score_num', question_i') = gen_calls' + 1
         /\ (pc = "questionnaire" /\ last_q'.result.status = "fail") =>
              IF q_calls' = total_q_calls
              THEN pc' = "questionnaire_done"
              ELSE /\ pc' = "questionnaire"
                   /\ QPos(q_model_i', q_trait_i', level_i', question_set_i') = q_calls' + 1
       ]_vars

C18_Witness ==
  /\ pc = "questionnaire_done"
  /\ failQ = 0
  /\ judge_calls < gen_calls
  /\ Len(results_list) = judge_calls
  /\ gen_calls = total_generations
  /\ \E i \in 1..Len(results_list) :
       results_list[i].judge_reasoning = StrV("JSON PARSE ERROR")
  /\ Len(questionnaire_results_list) = total_q_calls - 1

\* toks[f..l] is one object of scalar members
FlatObjectAt(toks, f, l) ==
  LET m == l - f - 1
  IN /\ f < l
     /\ toks[f].t = "LB" /\ toks[l].t = "RB"
     /\ m = 0 \/ m % 3 = 2
     /\ \A j \in 1..m :
          toks[f + j].t = IF j % 3 = 1 THEN "KEY"
                          ELSE IF j % 3 = 2 THEN "VAL" ELSE "CM"

\* the text is two objects of scalar members with prose between them, and
\* nothing but prose around them
TwoObjectsWithProse(text) ==
  /\ ~text.isNone
  /\ \E f1, l1, f2, l2 \in 1..Len(text.toks) :
       /\ FlatObjectAt(text.toks, f1, l1)
       /\ FlatObjectAt(text.toks, f2, l2)
       /\ l1 + 1 < f2
       /\ \A i \in 1..Len(text.toks) :
            (i < f1 \/ (l1 < i /\ i < f2) \/ i > l2) => text.toks[i].t = "PROSE"

\* C19: the candidate the parser hands to json.loads is the span from the
\* first "{" of the judge text to its last "}", whatever lies between, and
\* there is one exactly when some "}" follows some "{"; the verdict is the
\* parse of that span or the sentinel.  A text of two valid objects with prose
\* between them gives the sentinel verdict, not the fields of the first object.
C19_GreedyBraceSpan ==
  (pc = "parser" /\ last_parse.done /\ ~judge_text.isNone) =>
    LET toks  == judge_text.toks
        match == re_search(judge_text)
    IN /\ match.found <=>
            \E i, j \in 1..Len(toks) : i < j /\ toks[i].t = "LB" /\ toks[j].t = "RB"
       /\ match.found =>
            /\ \E f, l \in 1..Len(toks) :
                 /\ f < l
                 /\ toks[f].t = "LB" /\ \A i \in 1..(f - 1) : toks[i].t # "LB"
                 /\ toks[l].t = "RB" /\ \A i \in (l + 1)..Len(toks) : toks[i].t # "RB"
                 /\ match.span = SubSeq(toks, f, l)
            /\ last_parse.judge_result =
                 IF json_loads(match.span).exc = "none"
                 THEN json_loads(match.span).dict
                 ELSE SentinelVerdict
       /\ ~match.found => last_parse.judge_result = SentinelVerdict
       /\ TwoObjectsWithProse(judge_text) =>
            /\ last_parse.judge_result = SentinelVerdict
            /\ Verdict(last_parse.judge_result).judge_score = None
            /\ Verdict(last_parse.judge_result).judge_reasoning = StrV("JSON PARSE ERROR")

C19_Witness ==
  /\ pc = "parser"
  /\ last_parse.done
  /\ judge_text = JudgeSamples[10]
  /\ TwoObjectsWithProse(judge_text)
  /\ re_search(judge_text).span = judge_text.toks
  /\ Verdict(last_parse.judge_result).judge_score = None
  /\ Verdict(last_parse.judge_result).judge_reasoning = StrV("JSON PARSE ERROR")

\* C20: every judge call of the sweep is made through the hosted-API generate
\* function, with the judge model id and temperature 0, whether the model
\* under test is a hosted or a local one: the call's outcome is that of the
\* hosted function's retry loop, and the local handler is not used for it.
C20_JudgeThroughHostedApi ==
  last_judge.called =>
    /\ last_gen.called /\ last_gen.handler \in {"hf", "groq"}
    /\ last_judge.handler = "groq"
    /\ last_judge.model_name = JUDGE_MODEL_ID
    /\ last_judge.temperature = 0
    /\ last_judge.result =
         generate_response_groq(JUDGE_MODEL_ID, "", "", 0, last_judge.env)
    /\ judge_calls >= 1

C20_Witness ==
  /\ last_gen.called /\ last_gen.handler = "hf"
  /\ last_gen.temperature = 7
  /\ last_judge.called
  /\ last_judge.handler = "groq"
  /\ last_judge.model_name = JUDGE_MODEL_ID
  /\ last_judge.temperature = 0
  /\ last_judge.env.raises = <<TRUE, FALSE, FALSE>>
  /\ last_judge.result.status = "ok"
  /\ last_judge.result.attempts = 2

\* the generation sweep has returned
AfterGenerationSweep ==
  pc \in {"text_generation_done", "questionnaire", "questionnaire_done"}

\* C21: the generation sweep ends after exactly |models| x 5 x 5 x |questions|
\* iterations, whatever the backend calls return: while it runs, the progress
\* counter is below the total; every step of the running sweep is one
\* iteration that adds one to the counter, and the sweep returns at the one that
\* brings the counter to the total and at no other; no hosted call makes more
\* than 3 attempts, and no exception leaves the sweep.
C21_SweepTerminates ==
  /\ [](/\ pc # "crashed"
        /\ total_generations = Len(MODELS_TO_TEST) * 5 * 5 * Len(QUESTIONS)
        /\ pc = "text_generation" => current_generation < total_generations
        /\ AfterGenerationSweep => current_generation = total_generations
        /\ \A c \in GroqCalls :
             c.result.attempts <= 3 /\ Len(c.result.waits) <= 3)
  /\ [][ pc = "text_generation" =>
           /\ current_generation' = current_generation + 1
           /\ (pc' = "text_generation_done") = (current_generation' = total_generations)
           /\ pc' \in {"text_generation", "text_generation_done"} ]_vars

C21_Witness ==
  /\ pc = "text_generation_done"
  /\ current_generation = total_generations
  /\ failQ = 0
  /\ failed_iterations # {}
  /\ last_judge.called
  /\ last_judge.env.raises = <<TRUE, TRUE, TRUE>>
  /\ last_judge.result.attempts = 3
  /\ last_judge.result.status = "fail"

\* C22: in an iteration of the generation sweep the judge is called exactly
\* when the generation call of that iteration returned 'ok', and not after a
\* 'fail': every iteration makes one generation call, the count of judge calls
\* grows by one with each successful generation and not otherwise, and the
\* judge's user message holds the question of the iteration and the text its
\* generation call returned.
C22_JudgeOnlyAfterOk ==
  /\ [](/\ last_judge.called =>
             /\ last_gen.called
             /\ last_gen.result.status = "ok"
             /\ last_judge.generated_text = last_gen.result.text
             /\ last_judge.question = last_gen.question
        /\ (last_gen.called /\ last_gen.result.status = "fail") => ~last_judge.called
        /\ Len(results_list) <= judge_calls
        /\ judge_calls <= gen_calls)
  /\ [][ pc = "text_generation" =>
           /\ last_gen'.called
           /\ gen_calls' = gen_calls + 1
           /\ last_gen'.question = QUESTIONS[question_i]
           /\ last_judge'.called = (last_gen'.result.status = "ok")
           /\ judge_calls' = judge_calls + (IF last_gen'.result.status = "ok" THEN 1 ELSE 0)
           /\ judge_calls' = judge_calls + (IF last_judge'.called THEN 1 ELSE 0) ]_vars

C22_Witness ==
  /\ last_gen.called
  /\ last_gen.result.status = "ok"
  /\ last_judge.called
  /\ last_judge.generated_text = last_gen.result.text
  /\ last_judge.generated_text = StubAnswer(current_generation)
  /\ last_judge.question = QUESTIONS[2]
  /\ judge_calls > 1
  /\ judge_calls < gen_calls

\* the answers that are the i-th phrase of the vocabulary in some letter case,
\* between runs of whitespace
SpellingsOf(i) ==
  { StrAnswer(l \o c \o r) :
      l \in Pads(MaxPad), r \in Pads(MaxPad),
      c \in LetterCases(Chars(BFI44_SCORES_DICT[i].text)) }

\* C23: match_score gives an answer that is one of the five phrases of the
\* vocabulary, in any letter case and between whitespace, the score the
\* vocabulary has for that phrase, also for the two "disagree" phrases that
\* contain an "agree" phrase; an answer that contains none of the phrases,
\* whatever its letter case, gets 3.
C23_LikertMatching ==
  Scores # 0 =>
    /\ \A i \in 1..Len(BFI44_SCORES_DICT) :
         Answer \in SpellingsOf(i) => Scores = BFI44_SCORES_DICT[i].score
    /\ (\A i \in 1..Len(BFI44_SCORES_DICT) :
          ~str_in(Chars(BFI44_SCORES_DICT[i].text), str_lower(str_of(Answer))))
         => Scores = 3
    /\ str_in(Chars(BFI44_SCORES_DICT[4].text), Chars(BFI44_SCORES_DICT[2].text))
    /\ str_in(Chars(BFI44_SCORES_DICT[5].text), Chars(BFI44_SCORES_DICT[1].text))

C23_Witness ==
  /\ pc = "plotting"
  /\ Answer = StrAnswer(<<12>> \o AsciiUpper(Chars(BFI44_SCORES_DICT[2].text)) \o <<160>>)
  /\ Scores = 2
====
